---- MODULE Spec2Model ----
(***************************************************************************)
(* The per-frame simulation of src/components/GameCanvas.tsx together with *)
(* the session state of src/App.tsx.                                       *)
(*                                                                         *)
(* Numbers.  The program computes with IEEE doubles.  Here every length,   *)
(* velocity, score and obstacle timer is an integer count of hundredths    *)
(* (Px(30) is 30.00), the time-scale is a percentage (100 or 15), and a    *)
(* product with the time-scale is rounded down to a hundredth.  Wall-clock *)
(* times (Date.now(), expiries, setTimeout delays) are whole milliseconds. *)
(* Math.random() and Math.sin()/Math.cos() of the wall clock are inputs    *)
(* drawn from small sets.  Obstacle, pickup and timer ids are fresh        *)
(* integers.                                                               *)
(***************************************************************************)
EXTENDS Integers, Sequences, FiniteSets, TLC

\* ------------------------------------------------------------ constants
CANVAS_WIDTH == 800
GROUND_Y == 320
GRAVITY == 80
JUMP_FORCE == -1500
PLAYER_X == 100
PLAYER_SIZE == 30
PLAYER_SPEED == 5
POWERUP_DURATION == 8000
NEAR_MISS_THRESHOLD == 25
INVINCIBILITY_DURATION == 2000
SHIELD_RECOVERY == 1000
DEATH_DELAY == 1500
SLOW_MOTION == 15
NORMAL_SPEED == 100
HIT_MARGIN == 5
SPAWN_X == 950
FRAME_MS == 16
LASER_PERIOD == 2000
OFFSTAGE_X == -1000
CULL_X == -50

\* ------------------------------------------------------------ bounds
MaxTicks == 2
MaxKeyEvents == 2

\* ------------------------------------------------------------ arithmetic
Px(n) == n * 100
Scale(v, dt) == (v * dt) \div 100
Floor(v) == v \div 100
Min(a, b) == IF a < b THEN a ELSE b
Max(a, b) == IF a > b THEN a ELSE b
Abs(a) == IF a < 0 THEN -a ELSE a

GameStates == {"START", "PLAYING", "GAMEOVER"}
PowerUpTypes == {"SHIELD", "BOOST", "MULTIPLIER"}
ObstacleTypes == {"spike", "wall", "drone", "mine", "laser", "saw", "stomp", "missile"}
SocialEvents == {"NEAR_MISS", "COLLECT", "POWERUP", "LEVEL_UP"}
JumpKeys == {"Space", "ArrowUp", "KeyW"}
LeftKeys == {"ArrowLeft", "KeyA"}
RightKeys == {"ArrowRight", "KeyD"}

\* ------------------------------------------------------------ Map<PowerUpType, number>
EmptyMap == [t \in {} |-> 0]
MapHas(m, t) == t \in DOMAIN m
MapSet(m, t, v) == [k \in (DOMAIN m) \cup {t} |-> IF k = t THEN v ELSE m[k]]
MapDelete(m, t) == [k \in (DOMAIN m) \ {t} |-> m[k]]

\* ------------------------------------------------------------ sequences
RECURSIVE SelectIdx(_, _, _)
SelectIdx(s, Keep(_), i) ==
  IF i > Len(s) THEN <<>>
  ELSE (IF Keep(s[i]) THEN <<s[i]>> ELSE <<>>) \o SelectIdx(s, Keep, i + 1)
Filter(s, Keep(_)) == SelectIdx(s, Keep, 1)

VARIABLES
  gameState,            \* App: useState<GameState>
  hostScore,            \* App: score (onScoreUpdate / handleGameOver)
  highScore,            \* App: highScore
  keysPressed,          \* the codes whose keysPressed entry is true
  playerPos,            \* [x, y]
  playerVel,            \* [x, y]
  isJumping,
  scoreRef,
  lastLevelRef,
  lastXDir,
  isDying,
  invincibleUntil,
  timeScale,
  activePowerUps,       \* Map type -> expiry
  obstacles,
  collectibles,
  powerUps,
  nearMissedObstacles,
  deathTimeoutRef,      \* 0 is null
  hasMultiplier,        \* useState hasMultiplier
  activeHudPowerUps,    \* useState activeHudPowerUps
  timers,               \* pending window.setTimeout callbacks: [id, due]
  now,                  \* the wall clock, ms
  nextId,               \* the next fresh id
  ticks,                \* number of update() calls made
  keyEvents,            \* number of key events delivered
  emitted,              \* social events delivered to the host since the last reset
  reports,              \* the scores onGameOver was called with since the last reset
  deathSequences,       \* times the death sequence was entered since the last reset
  scoreAtDeath,         \* scoreRef when the death sequence was last entered
  firstFrame,           \* no update() has run since the last change to PLAYING
  log,                  \* what the last handler did
  revision,             \* which of the two revisions of the content service is loaded
  lastRequestTime,      \* content service: let lastRequestTime
  circuitOpenUntil,     \* content service: let circuitOpenUntil
  requests,             \* content service: the calls of its exported functions
  apiCalls,             \* the generateContent calls issued: [at, by, attempt]
  rateLimits,           \* the times at which a generateContent call failed with a 429
  isTransitioning,      \* App: useState isTransitioning
  lastShiftRef,         \* App: lastShiftRef.current
  envRequests,          \* App: the fetchNewEnvironment calls made: [started, milestone, settled]
  cooldowns,            \* App: due times of the pending setTimeout of line 41
  environment,          \* App: useState environment, by its name
  biomeHistory,         \* App: useState biomeHistory
  sessionRequests       \* App: the index in envRequests of the last call made before the latest startGame

vars == <<gameState, hostScore, highScore, keysPressed, playerPos, playerVel,
          isJumping, scoreRef, lastLevelRef, lastXDir, isDying, invincibleUntil,
          timeScale, activePowerUps, obstacles, collectibles, powerUps,
          nearMissedObstacles, deathTimeoutRef, hasMultiplier, activeHudPowerUps,
          timers, now, nextId, ticks, keyEvents, emitted, reports, deathSequences,
          scoreAtDeath, firstFrame, log, revision, lastRequestTime, circuitOpenUntil,
          requests, apiCalls, rateLimits, isTransitioning, lastShiftRef, envRequests,
          cooldowns, environment, biomeHistory, sessionRequests>>

serviceVars == <<revision, lastRequestTime, circuitOpenUntil, requests, apiCalls, rateLimits>>

hostVars == <<isTransitioning, lastShiftRef, envRequests, cooldowns, environment,
              biomeHistory, sessionRequests>>

\* the refs and state of GameCanvas
canvasVars == <<keysPressed, playerPos, playerVel, isJumping, scoreRef, lastLevelRef,
                lastXDir, isDying, invincibleUntil, timeScale, activePowerUps, obstacles,
                collectibles, powerUps, nearMissedObstacles, deathTimeoutRef, hasMultiplier,
                activeHudPowerUps, timers, nextId, ticks, keyEvents, emitted, reports,
                deathSequences, scoreAtDeath, firstFrame, log>>

\* everything but the clock, the content service and the host's request state
gameVars == <<gameState, hostScore, highScore, keysPressed, playerPos, playerVel,
              isJumping, scoreRef, lastLevelRef, lastXDir, isDying, invincibleUntil,
              timeScale, activePowerUps, obstacles, collectibles, powerUps,
              nearMissedObstacles, deathTimeoutRef, hasMultiplier, activeHudPowerUps,
              timers, nextId, ticks, keyEvents, emitted, reports, deathSequences,
              scoreAtDeath, firstFrame, log>>

\* ------------------------------------------------------------ entities
NoState == [timer |-> 0, active |-> FALSE, stage |-> "none",
            impactSoundPlayed |-> FALSE, speed |-> 0, rotation |-> 0]

\* a value rand * range for Math.random() = u/100
Rand(u, range) == (u * range) \div 100

spawnCollectible(id, v) ==
  [id |-> id, x |-> Px(CANVAS_WIDTH + 200), y |-> Px(GROUND_Y - 50) - Rand(v, Px(150)),
   size |-> Px(20), collected |-> FALSE]

spawnPowerUp(id, ptype, v) ==
  [id |-> id, x |-> Px(CANVAS_WIDTH + 200), y |-> Px(GROUND_Y - 100) - Rand(v, Px(100)),
   size |-> Px(30), type |-> ptype, collected |-> FALSE]

ObstacleWidth(type) ==
  CASE type = "mine" -> Px(25) [] type = "laser" -> Px(20) [] type = "saw" -> Px(40)
    [] type = "stomp" -> Px(60) [] type = "missile" -> Px(40) [] OTHER -> Px(30)

ObstacleHeight(type) ==
  CASE type = "wall" -> Px(60) [] type = "mine" -> Px(25) [] type = "laser" -> Px(GROUND_Y)
    [] type = "saw" -> Px(40) [] type = "stomp" -> Px(80) [] type = "missile" -> Px(20)
    [] OTHER -> Px(30)

ObstacleY(type, u, py) ==
  CASE type = "drone" -> Px(GROUND_Y - 80) - Rand(u, Px(50))
    [] type = "mine" -> Px(GROUND_Y - 100) - Rand(u, Px(100))
    [] type = "laser" -> 0
    [] type = "stomp" -> -ObstacleHeight(type)
    [] type = "missile" -> py
    [] OTHER -> Px(GROUND_Y) - ObstacleHeight(type)

ObstacleState(type, u) ==
  CASE type = "stomp" -> [NoState EXCEPT !.stage = "waiting", !.timer = Px(1000) + Rand(u, Px(1000))]
    [] type = "missile" -> [NoState EXCEPT !.speed = Px(8) + Rand(u, Px(5))]
    [] OTHER -> NoState

\* the factor of line 235 computed without the score
SpeedMultiplierFlat(score) == 100
\* line 235, in hundredths
SpeedMultiplier(score) == 100 + score \div 1000

NewObstacle(id, type, u, py, score) ==
  [id |-> id, x |-> Px(SPAWN_X), y |-> ObstacleY(type, u, py), baseY |-> ObstacleY(type, u, py),
   width |-> ObstacleWidth(type), height |-> ObstacleHeight(type), type |-> type,
   speedMultiplier |-> SpeedMultiplier(score), state |-> ObstacleState(type, u)]

\* ------------------------------------------------------------ update(): registry
Purge(ap, t) == [k \in {k \in DOMAIN ap : ~(t > ap[k])} |-> ap[k]]

HudUpdates(ap, t) ==
  {[type |-> k, timeLeft |-> ap[k] - t, percent |-> ((ap[k] - t) * 100) \div POWERUP_DURATION] :
     k \in DOMAIN ap}

\* ------------------------------------------------------------ update(): player
KeyDir(keys) ==
  IF keys \cap RightKeys # {} THEN 1 ELSE IF keys \cap LeftKeys # {} THEN -1 ELSE 0

PadDir(gp, d) ==
  LET a == IF gp.axis < -30 THEN -1 ELSE IF gp.axis > 30 THEN 1 ELSE d
      b == IF gp.left THEN -1 ELSE a
  IN IF gp.right THEN 1 ELSE b

\* the loop of lines 302-313 without the airborne test of line 307
RECURSIVE PadLoopAirborne(_, _, _)
PadLoopAirborne(pads, i, acc) ==
  IF i > Len(pads) THEN acc
  ELSE LET gp == pads[i]
       IN PadLoopAirborne(pads, i + 1,
            [dir |-> PadDir(gp, acc.dir),
             vy |-> IF gp.jump THEN JUMP_FORCE ELSE acc.vy,
             isJumping |-> acc.isJumping \/ gp.jump,
             jumps |-> acc.jumps + (IF gp.jump THEN 1 ELSE 0)])

\* lines 300-314
RECURSIVE PadLoop(_, _, _)
PadLoop(pads, i, acc) ==
  IF i > Len(pads) THEN acc
  ELSE LET gp == pads[i]
           jump == ~acc.isJumping /\ gp.jump
       IN PadLoop(pads, i + 1,
            [dir |-> PadDir(gp, acc.dir),
             vy |-> IF jump THEN JUMP_FORCE ELSE acc.vy,
             isJumping |-> acc.isJumping \/ jump,
             jumps |-> acc.jumps + (IF jump THEN 1 ELSE 0)])

CurrentSpeed(ap) == IF MapHas(ap, "BOOST") THEN (Px(PLAYER_SPEED) * 16) \div 10 ELSE Px(PLAYER_SPEED)

\* the player's step without the clamp of line 326
PlayerStepNoClamp(s, ap, dt, pads) ==
  LET in == IF s.isDying
            THEN [dir |-> 0, vy |-> s.playerVel.y, isJumping |-> s.isJumping, jumps |-> 0]
            ELSE PadLoop(pads, 1, [dir |-> KeyDir(s.keysPressed), vy |-> s.playerVel.y,
                                   isJumping |-> s.isJumping, jumps |-> 0])
      x1 == IF s.isDying THEN s.playerPos.x
            ELSE s.playerPos.x + Scale(in.dir * CurrentSpeed(ap), dt)
      x2 == x1
      vy1 == in.vy + Scale(GRAVITY, dt)
      y1 == s.playerPos.y + Scale(vy1, dt)
      land == y1 > Px(GROUND_Y - PLAYER_SIZE)
  IN [x |-> x2,
      y |-> IF land THEN Px(GROUND_Y - PLAYER_SIZE) ELSE y1,
      vy |-> IF land THEN 0 ELSE vy1,
      isJumping |-> IF land THEN FALSE ELSE in.isJumping,
      lastXDir |-> IF s.isDying THEN s.lastXDir ELSE in.dir,
      jumps |-> in.jumps,
      pressed |-> \E i \in 1..Len(pads) : pads[i].jump,
      landed |-> land]

\* lines 292-333: input, horizontal move, clamp, gravity, landing
PlayerStep(s, ap, dt, pads) ==
  LET in == IF s.isDying
            THEN [dir |-> 0, vy |-> s.playerVel.y, isJumping |-> s.isJumping, jumps |-> 0]
            ELSE PadLoop(pads, 1, [dir |-> KeyDir(s.keysPressed), vy |-> s.playerVel.y,
                                   isJumping |-> s.isJumping, jumps |-> 0])
      x1 == IF s.isDying THEN s.playerPos.x
            ELSE s.playerPos.x + Scale(in.dir * CurrentSpeed(ap), dt)
      x2 == Max(0, Min(x1, Px(CANVAS_WIDTH - PLAYER_SIZE)))
      vy1 == in.vy + Scale(GRAVITY, dt)
      y1 == s.playerPos.y + Scale(vy1, dt)
      land == y1 > Px(GROUND_Y - PLAYER_SIZE)
  IN [x |-> x2,
      y |-> IF land THEN Px(GROUND_Y - PLAYER_SIZE) ELSE y1,
      vy |-> IF land THEN 0 ELSE vy1,
      isJumping |-> IF land THEN FALSE ELSE in.isJumping,
      lastXDir |-> IF s.isDying THEN s.lastXDir ELSE in.dir,
      jumps |-> in.jumps,
      pressed |-> \E i \in 1..Len(pads) : pads[i].jump,
      landed |-> land]

\* ------------------------------------------------------------ update(): score
GameSpeed(score, dt) == Scale(Px(6) + score \div 1200, dt)

\* a subtraction where the code multiplies
PassiveOffset(gs, mult) == gs \div 8 - (IF mult THEN 250 ELSE 100)
\* line 337
Passive(gs, mult) == (gs * (IF mult THEN 25 ELSE 10)) \div 80

Level(score) == score \div Px(1000) + 1

\* ------------------------------------------------------------ update(): obstacles
\* the stomp's stage machine with the impact flag left set on the return to waiting
StompStepNoReset(o, dt, wait) ==
  LET st == o.state IN
  CASE st.stage = "waiting" ->
         LET t1 == st.timer - Scale(Px(FRAME_MS), dt)
         IN [o EXCEPT !.state.timer = t1,
                      !.state.stage = IF t1 <= 0 THEN "dropping" ELSE "waiting"]
    [] st.stage = "dropping" ->
         LET y1 == o.y + Scale(Px(20), dt)
         IN IF y1 >= Px(GROUND_Y) - o.height
            THEN [o EXCEPT !.y = Px(GROUND_Y) - o.height,
                           !.state.impactSoundPlayed = TRUE,
                           !.state.stage = "rising",
                           !.state.timer = Px(500)]
            ELSE [o EXCEPT !.y = y1]
    [] st.stage = "rising" ->
         LET t1 == st.timer - Scale(Px(FRAME_MS), dt)
             y1 == o.y - Scale(Px(3), dt)
         IN IF t1 <= 0
            THEN IF y1 <= -o.height
                 THEN [o EXCEPT !.y = -o.height,
                                !.state.stage = "waiting",
                                !.state.timer = wait]
                 ELSE [o EXCEPT !.y = y1, !.state.timer = t1]
            ELSE [o EXCEPT !.state.timer = t1]
    [] OTHER -> o

\* lines 366-394: the stomp's stage machine; wait is 1500 + Math.random() * 2000
StompStep(o, dt, wait) ==
  LET st == o.state IN
  CASE st.stage = "waiting" ->
         LET t1 == st.timer - Scale(Px(FRAME_MS), dt)
         IN [o EXCEPT !.state.timer = t1,
                      !.state.stage = IF t1 <= 0 THEN "dropping" ELSE "waiting"]
    [] st.stage = "dropping" ->
         LET y1 == o.y + Scale(Px(20), dt)
         IN IF y1 >= Px(GROUND_Y) - o.height
            THEN [o EXCEPT !.y = Px(GROUND_Y) - o.height,
                           !.state.impactSoundPlayed = TRUE,
                           !.state.stage = "rising",
                           !.state.timer = Px(500)]
            ELSE [o EXCEPT !.y = y1]
    [] st.stage = "rising" ->
         LET t1 == st.timer - Scale(Px(FRAME_MS), dt)
             y1 == o.y - Scale(Px(3), dt)
         IN IF t1 <= 0
            THEN IF y1 <= -o.height
                 THEN [o EXCEPT !.y = -o.height,
                                !.state.stage = "waiting",
                                !.state.timer = wait,
                                !.state.impactSoundPlayed = FALSE]
                 ELSE [o EXCEPT !.y = y1, !.state.timer = t1]
            ELSE [o EXCEPT !.state.timer = t1]
    [] OTHER -> o

\* lines 372-379: the frame plays the impact sound and burst for this stomp
StompImpact(o, dt) ==
  /\ o.type = "stomp" /\ o.state.stage = "dropping"
  /\ o.y + Scale(Px(20), dt) >= Px(GROUND_Y) - o.height
  /\ ~o.state.impactSoundPlayed

\* lines 358-364
LaserStep(o, dt) ==
  LET t1 == o.state.timer + Scale(Px(FRAME_MS), dt)
  IN IF t1 > Px(LASER_PERIOD)
     THEN [o EXCEPT !.state.timer = 0, !.state.active = ~o.state.active]
     ELSE [o EXCEPT !.state.timer = t1]

\* lines 350-395: one obstacle's move; sinv, cosv are 100 * Math.sin, Math.cos
MoveObstacle(o, gs, dt, in) ==
  LET x1 == IF o.type # "missile" THEN o.x - gs ELSE o.x - (gs + Scale(o.state.speed, dt))
      m == [o EXCEPT !.x = x1]
  IN CASE o.type = "drone" -> [m EXCEPT !.y = o.baseY + in.sinv * 12]
       [] o.type = "mine" -> [m EXCEPT !.y = o.baseY + in.sinv * 40, !.x = x1 + in.cosv * 2]
       [] o.type = "laser" -> LaserStep(m, dt)
       [] o.type = "saw" -> [m EXCEPT !.state.rotation = o.state.rotation + Scale(20, dt)]
       [] o.type = "stomp" -> StompStep(m, dt, in.wait)
       [] OTHER -> m

\* the near-miss test without the threshold added to the player's size
NearWithinPlayerSize(o, px, py) ==
  LET dx == (px + Px(PLAYER_SIZE) \div 2) - (o.x + o.width \div 2)
      dy == (py + Px(PLAYER_SIZE) \div 2) - (o.y + o.height \div 2)
      r == Px(PLAYER_SIZE)
  IN Abs(dx) < r /\ Abs(dy) < r /\ dx * dx + dy * dy < r * r

\* lines 398-401
Near(o, px, py) ==
  LET dx == (px + Px(PLAYER_SIZE) \div 2) - (o.x + o.width \div 2)
      dy == (py + Px(PLAYER_SIZE) \div 2) - (o.y + o.height \div 2)
      r == Px(PLAYER_SIZE + NEAR_MISS_THRESHOLD)
  IN Abs(dx) < r /\ Abs(dy) < r /\ dx * dx + dy * dy < r * r

\* the has() test of line 397 left out
AlreadyCreditedNever(set, id) == FALSE
\* line 397
AlreadyCredited(set, id) == id \in set

\* lines 349-408: the forEach over the obstacles
RECURSIVE ObstacleLoop(_, _, _, _, _, _, _, _)
ObstacleLoop(obs, i, acc, gs, dt, in, dying, p) ==
  IF i > Len(obs) THEN acc
  ELSE LET m == MoveObstacle(obs[i], gs, dt, in)
           credit == ~dying /\ ~AlreadyCredited(acc.nearMissed, m.id) /\ Near(m, p.x, p.y)
       IN ObstacleLoop(obs, i + 1,
            [obstacles |-> Append(acc.obstacles, m),
             nearMissed |-> IF credit THEN acc.nearMissed \cup {m.id} ELSE acc.nearMissed,
             score |-> IF credit THEN acc.score + Px(500) ELSE acc.score,
             events |-> IF credit THEN Append(acc.events, "NEAR_MISS") ELSE acc.events,
             credited |-> IF credit THEN Append(acc.credited, m.id) ELSE acc.credited,
             impacts |-> IF StompImpact(obs[i], dt) THEN acc.impacts \cup {m.id} ELSE acc.impacts],
            gs, dt, in, dying, p)

\* lines 417-418
\* the gap term without its floor
SpawnGapNoFloor(score) == Px(250) - score \div 30
SpawnGap(score) == Px(250) - Min(score \div 30, Px(150))
\* the empty-list case of line 417 left out
SpawnDueAfterLast(obs, score, dying) ==
  ~dying /\ Len(obs) > 0 /\ obs[Len(obs)].x < Px(CANVAS_WIDTH) - SpawnGap(score)
SpawnDue(obs, score, dying) ==
  ~dying /\ (Len(obs) = 0 \/ obs[Len(obs)].x < Px(CANVAS_WIDTH) - SpawnGap(score))

\* ------------------------------------------------------------ update(): pickups
Overlap(p, e) ==
  /\ p.x < e.x + e.size /\ p.x + Px(PLAYER_SIZE) > e.x
  /\ p.y < e.y + e.size /\ p.y + Px(PLAYER_SIZE) > e.y

\* the new expiry added to the one already held
PickupExpiryStacked(ap, type, t) ==
  IF MapHas(ap, type) THEN ap[type] + POWERUP_DURATION ELSE t + POWERUP_DURATION
\* line 431
PickupExpiry(ap, type, t) == t + POWERUP_DURATION

\* lines 428-442
RECURSIVE PowerUpLoop(_, _, _, _, _)
PowerUpLoop(pups, i, acc, p, t) ==
  IF i > Len(pups) THEN acc
  ELSE LET pup == pups[i]
           take == ~pup.collected /\ Overlap(p, pup)
       IN PowerUpLoop(pups, i + 1,
            [powerUps |-> Append(acc.powerUps, IF take THEN [pup EXCEPT !.collected = TRUE] ELSE pup),
             ap |-> IF take THEN MapSet(acc.ap, pup.type, PickupExpiry(acc.ap, pup.type, t)) ELSE acc.ap,
             events |-> IF take THEN Append(acc.events, "POWERUP") ELSE acc.events,
             picked |-> IF take THEN Append(acc.picked, pup.type) ELSE acc.picked],
            p, t)

CollectValue(isMultActive) == IF isMultActive THEN Px(300) ELSE Px(100)

\* lines 443-451
RECURSIVE CollectibleLoop(_, _, _, _, _)
CollectibleLoop(cols, i, acc, p, isMultActive) ==
  IF i > Len(cols) THEN acc
  ELSE LET col == cols[i]
           take == ~col.collected /\ Overlap(p, col)
       IN CollectibleLoop(cols, i + 1,
            [collectibles |-> Append(acc.collectibles, IF take THEN [col EXCEPT !.collected = TRUE] ELSE col),
             score |-> IF take THEN acc.score + CollectValue(isMultActive) ELSE acc.score,
             events |-> IF take THEN Append(acc.events, "COLLECT") ELSE acc.events,
             taken |-> acc.taken + (IF take THEN 1 ELSE 0)],
            p, isMultActive)

\* ------------------------------------------------------------ update(): hazards
\* the hit test with a laser's beam always on
HitLaserAlwaysOn(o, p) ==
  LET m == Px(HIT_MARGIN) IN
  \/ /\ o.type # "laser"
     /\ p.x + m < o.x + o.width - m
     /\ p.x + Px(PLAYER_SIZE) - m > o.x + m
     /\ p.y + m < o.y + o.height - m
     /\ p.y + Px(PLAYER_SIZE) - m > o.y + m
  \/ /\ o.type = "laser"
     /\ p.x + Px(PLAYER_SIZE) > o.x + Px(5)
     /\ p.x < o.x + o.width - Px(5)

\* lines 456-458
Hit(o, p) ==
  LET m == Px(HIT_MARGIN) IN
  \/ /\ o.type # "laser"
     /\ p.x + m < o.x + o.width - m
     /\ p.x + Px(PLAYER_SIZE) - m > o.x + m
     /\ p.y + m < o.y + o.height - m
     /\ p.y + Px(PLAYER_SIZE) - m > o.y + m
  \/ /\ o.type = "laser"
     /\ o.state.active
     /\ p.x + Px(PLAYER_SIZE) > o.x + Px(5)
     /\ p.x < o.x + o.width - Px(5)

\* lines 244-262; d carries isDying, timeScale, timers, deathTimeoutRef, nextId
\* the isDying guard of line 245 left out
triggerDeathSequenceUnguarded(d, t, score) ==
  [d EXCEPT !.isDying = TRUE, !.timeScale = SLOW_MOTION,
            !.timers = d.timers \cup {[id |-> d.nextId, due |-> t + DEATH_DELAY]},
            !.deathTimeoutRef = d.nextId, !.nextId = d.nextId + 1,
            !.entered = d.entered + 1, !.scoreAtDeath = score]
\* the time-scale assignment of line 247 left out
triggerDeathSequenceFullSpeed(d, t, score) ==
  IF d.isDying THEN d
  ELSE [d EXCEPT !.isDying = TRUE,
                 !.timers = d.timers \cup {[id |-> d.nextId, due |-> t + DEATH_DELAY]},
                 !.deathTimeoutRef = d.nextId, !.nextId = d.nextId + 1,
                 !.entered = d.entered + 1, !.scoreAtDeath = score]
triggerDeathSequence(d, t, score) ==
  IF d.isDying THEN d
  ELSE [d EXCEPT !.isDying = TRUE, !.timeScale = SLOW_MOTION,
                 !.timers = d.timers \cup {[id |-> d.nextId, due |-> t + DEATH_DELAY]},
                 !.deathTimeoutRef = d.nextId, !.nextId = d.nextId + 1,
                 !.entered = d.entered + 1, !.scoreAtDeath = score]

\* lines 455-468: the loop over the obstacles, entered when not invincible
RECURSIVE HazardLoop(_, _, _, _, _, _)
HazardLoop(obs, i, acc, p, t, score) ==
  IF i > Len(obs) THEN acc
  ELSE LET o == obs[i]
           hit == Hit(o, p)
           shield == hit /\ MapHas(acc.ap, "SHIELD")
           dead == hit /\ ~shield
       IN HazardLoop(obs, i + 1,
            [obstacles |-> Append(acc.obstacles,
                             IF shield /\ o.type # "laser" THEN [o EXCEPT !.x = Px(OFFSTAGE_X)] ELSE o),
             ap |-> IF shield THEN MapDelete(acc.ap, "SHIELD") ELSE acc.ap,
             inv |-> IF shield THEN t + SHIELD_RECOVERY ELSE acc.inv,
             d |-> IF dead THEN triggerDeathSequence(acc.d, t, score) ELSE acc.d,
             hits |-> acc.hits + (IF hit THEN 1 ELSE 0),
             absorbed |-> acc.absorbed + (IF shield THEN 1 ELSE 0),
             hitIds |-> IF hit THEN acc.hitIds \cup {o.id} ELSE acc.hitIds,
             absorbedIds |-> IF shield THEN acc.absorbedIds \cup {o.id} ELSE acc.absorbedIds,
             deathCalls |-> acc.deathCalls + (IF dead THEN 1 ELSE 0)],
            p, t, score)

\* ------------------------------------------------------------ update()
\* The refs update() reads, as one record.
Refs ==
  [keysPressed |-> keysPressed, playerPos |-> playerPos, playerVel |-> playerVel,
   isJumping |-> isJumping, scoreRef |-> scoreRef, lastLevelRef |-> lastLevelRef,
   lastXDir |-> lastXDir, isDying |-> isDying, invincibleUntil |-> invincibleUntil,
   timeScale |-> timeScale, activePowerUps |-> activePowerUps, obstacles |-> obstacles,
   collectibles |-> collectibles, powerUps |-> powerUps,
   nearMissedObstacles |-> nearMissedObstacles, deathTimeoutRef |-> deathTimeoutRef,
   timers |-> timers, nextId |-> nextId]

\* the pickups left where they are
ScrollStill(list, gs) == list
Scroll(list, gs) == [i \in 1..Len(list) |-> [list[i] EXCEPT !.x = list[i].x - gs]]
OnStage(o) == o.x + o.width > Px(CULL_X)
\* the filter of lines 414-415 without the collected test
OnStagePickup(e) == e.x + e.size > Px(CULL_X)
Uncollected(e) == e.x + e.size > Px(CULL_X) /\ ~e.collected

\* line 279 reads the registry before the purge of lines 283-289
IsMultActive(ap, t) == MapHas(ap, "MULTIPLIER")

\* the comparison of line 453 turned round
IsInvincibleReversed(t, inv) == t > inv
\* the hazard checks run whatever the expiry
IsInvincibleNever(t, inv) == FALSE
\* line 453
IsInvincible(t, inv) == t < inv

\* Let(v, F) is F(v) with v evaluated once
Let(v, F(_)) == CHOOSE r \in {F(x) : x \in {v}} : TRUE

\* lines 279-347: registry purge, player, passive score, level
UpdateHead(s, t, in) ==
  LET dt == s.timeScale
      isMultActive == IsMultActive(s.activePowerUps, t)
      ap1 == Purge(s.activePowerUps, t)
      gs == GameSpeed(s.scoreRef, dt)
      score1 == IF s.isDying THEN s.scoreRef ELSE s.scoreRef + Passive(gs, isMultActive)
      levelUp == ~s.isDying /\ Level(score1) > s.lastLevelRef
  IN [dt |-> dt, isMultActive |-> isMultActive, ap |-> ap1,
      pl |-> PlayerStep(s, ap1, dt, in.pads), gs |-> gs, score |-> score1,
      levelUp |-> levelUp,
      lastLevel |-> IF levelUp THEN Level(score1) ELSE s.lastLevelRef,
      inv |-> IF levelUp THEN t + INVINCIBILITY_DURATION ELSE s.invincibleUntil]

\* lines 349-408
UpdateObstacles(s, in, h) ==
  ObstacleLoop(s.obstacles, 1,
    [obstacles |-> <<>>, nearMissed |-> s.nearMissedObstacles, score |-> h.score,
     events |-> IF h.levelUp THEN <<"LEVEL_UP">> ELSE <<>>, credited |-> <<>>,
     impacts |-> {}],
    h.gs, h.dt, in, s.isDying, [x |-> h.pl.x, y |-> h.pl.y])

\* lines 410-418 with spawnObstacle, lines 215-242
UpdateLists(s, in, h, ol) ==
  LET obs2 == Filter(ol.obstacles, OnStage)
      spawn == SpawnDue(obs2, ol.score, s.isDying)
      cols2 == Filter(Scroll(s.collectibles, h.gs), Uncollected)
      pups2 == Filter(Scroll(s.powerUps, h.gs), Uncollected)
  IN [spawn |-> spawn,
      obstacles |-> IF spawn
                    THEN Append(obs2, NewObstacle(s.nextId, in.draw.type, in.draw.u, h.pl.y, ol.score))
                    ELSE obs2,
      powerUps |-> IF spawn /\ in.draw.roll = "powerup"
                   THEN Append(pups2, spawnPowerUp(s.nextId + 1, in.draw.ptype, in.draw.v))
                   ELSE pups2,
      collectibles |-> IF spawn /\ in.draw.roll = "collectible"
                       THEN Append(cols2, spawnCollectible(s.nextId + 1, in.draw.v))
                       ELSE cols2,
      nextId |-> IF spawn THEN s.nextId + (IF in.draw.roll = "none" THEN 1 ELSE 2) ELSE s.nextId]

\* the power-up loop without the isDying test of line 427
UpdatePowerUpsWhileDying(s, t, h, ol, l) ==
  PowerUpLoop(l.powerUps, 1,
    [powerUps |-> <<>>, ap |-> h.ap, events |-> ol.events, picked |-> <<>>],
    [x |-> h.pl.x, y |-> h.pl.y], t)

\* lines 427-451
UpdatePowerUps(s, t, h, ol, l) ==
  IF s.isDying
  THEN [powerUps |-> l.powerUps, ap |-> h.ap, events |-> ol.events, picked |-> <<>>]
  ELSE PowerUpLoop(l.powerUps, 1,
         [powerUps |-> <<>>, ap |-> h.ap, events |-> ol.events, picked |-> <<>>],
         [x |-> h.pl.x, y |-> h.pl.y], t)

UpdateCollectibles(s, h, ol, l, pu) ==
  IF s.isDying
  THEN [collectibles |-> l.collectibles, score |-> ol.score, events |-> pu.events, taken |-> 0]
  ELSE CollectibleLoop(l.collectibles, 1,
         [collectibles |-> <<>>, score |-> ol.score, events |-> pu.events, taken |-> 0],
         [x |-> h.pl.x, y |-> h.pl.y], h.isMultActive)

\* the hazard checks run on the registry and the expiry the frame started with
UpdateHazardsFirst(s, t, h, l, pu, cl) ==
  LET d0 == [isDying |-> s.isDying, timeScale |-> s.timeScale, timers |-> s.timers,
             deathTimeoutRef |-> s.deathTimeoutRef, nextId |-> l.nextId, entered |-> 0,
             scoreAtDeath |-> 0]
      hz0 == [obstacles |-> l.obstacles, ap |-> h.ap, inv |-> s.invincibleUntil, d |-> d0,
              hits |-> 0, absorbed |-> 0, hitIds |-> {}, absorbedIds |-> {},
              deathCalls |-> 0]
  IN IF s.isDying \/ IsInvincible(t, s.invincibleUntil) THEN hz0
     ELSE HazardLoop(l.obstacles, 1, [hz0 EXCEPT !.obstacles = <<>>],
                     [x |-> h.pl.x, y |-> h.pl.y], t, cl.score)

\* lines 453-469
UpdateHazards(s, t, h, l, pu, cl) ==
  LET d0 == [isDying |-> s.isDying, timeScale |-> s.timeScale, timers |-> s.timers,
             deathTimeoutRef |-> s.deathTimeoutRef, nextId |-> l.nextId, entered |-> 0,
             scoreAtDeath |-> 0]
      hz0 == [obstacles |-> l.obstacles, ap |-> pu.ap, inv |-> h.inv, d |-> d0,
              hits |-> 0, absorbed |-> 0, hitIds |-> {}, absorbedIds |-> {},
              deathCalls |-> 0]
  IN IF s.isDying \/ IsInvincible(t, h.inv) THEN hz0
     ELSE HazardLoop(l.obstacles, 1, [hz0 EXCEPT !.obstacles = <<>>],
                     [x |-> h.pl.x, y |-> h.pl.y], t, cl.score)

UpdateResult(s, t, h, ol, l, pu, cl, hz) ==
  [playerPos |-> [x |-> h.pl.x, y |-> h.pl.y],
   playerVel |-> [x |-> s.playerVel.x, y |-> h.pl.vy],
   isJumping |-> h.pl.isJumping,
   lastXDir |-> h.pl.lastXDir,
   scoreRef |-> cl.score,
   lastLevelRef |-> h.lastLevel,
   isDying |-> hz.d.isDying,
   invincibleUntil |-> hz.inv,
   timeScale |-> hz.d.timeScale,
   activePowerUps |-> hz.ap,
   obstacles |-> hz.obstacles,
   collectibles |-> cl.collectibles,
   powerUps |-> pu.powerUps,
   nearMissedObstacles |-> ol.nearMissed,
   deathTimeoutRef |-> hz.d.deathTimeoutRef,
   timers |-> hz.d.timers,
   nextId |-> hz.d.nextId,
   hasMultiplier |-> h.isMultActive,
   activeHudPowerUps |-> HudUpdates(h.ap, t),
   hostScore |-> Floor(ol.score),
   events |-> cl.events,
   log |-> [op |-> "update", t |-> t, dt |-> h.dt, dying |-> s.isDying,
            isMultActive |-> h.isMultActive,
            purged |-> (DOMAIN s.activePowerUps) \ DOMAIN h.ap,
            gameSpeed |-> h.gs, passive |-> h.score - s.scoreRef, levelUp |-> h.levelUp,
            moved |-> ol.obstacles,
            credited |-> ol.credited, impacts |-> ol.impacts, picked |-> pu.picked, taken |-> cl.taken,
            collectGain |-> cl.score - ol.score, shield |-> MapHas(pu.ap, "SHIELD"),
            invincible |-> IsInvincible(t, h.inv), hits |-> hz.hits,
            absorbed |-> hz.absorbed, deathCalls |-> hz.deathCalls,
            hitIds |-> hz.hitIds, absorbedIds |-> hz.absorbedIds,
            entered |-> hz.d.entered, scoreAtDeath |-> hz.d.scoreAtDeath,
            spawned |-> l.spawn, jumps |-> h.pl.jumps, landed |-> h.pl.landed,
            pressed |-> h.pl.pressed, wasJumping |-> s.isJumping,
            events |-> cl.events]]

\* lines 264-472, the body after the gameState test; t is Date.now(), in the
\* frame's inputs: pads (navigator.getGamepads()), sinv/cosv (the sine and cosine
\* samples), wait (the stomp's next wait) and draw (spawnObstacle's random draws)
Update(s, t, in) ==
  Let(UpdateHead(s, t, in), LAMBDA h :
  Let(UpdateObstacles(s, in, h), LAMBDA ol :
  Let(UpdateLists(s, in, h, ol), LAMBDA l :
  Let(UpdatePowerUps(s, t, h, ol, l), LAMBDA pu :
  Let(UpdateCollectibles(s, h, ol, l, pu), LAMBDA cl :
  Let(UpdateHazards(s, t, h, l, pu, cl), LAMBDA hz :
    UpdateResult(s, t, h, ol, l, pu, cl, hz)))))))

\* ------------------------------------------------------------ inputs
\* navigator.getGamepads(): no pad, or one pad pushed left with a jump button held
NoPad == <<>>
Pads == {NoPad, <<[axis |-> -100, left |-> FALSE, right |-> FALSE, jump |-> TRUE]>>}
\* the keys pressed in the model; the pad gives the direction
Keys == {"Space"}
\* the milliseconds between two frames
TickMs == {16, 33}
\* the time since the last frame: a frame at 60 or 30 frames per second or, while
\* an invincibility window is running, a stalled frame that comes as the window ends
Elapsed(t, inv) == TickMs \cup (IF inv - t > 33 THEN {inv - t} ELSE {})
\* 100 * Math.sin(..), 100 * Math.cos(..)
Waves == {-100, 100}
\* 1500 + Math.random() * 2000, in hundredths of a millisecond
StompWaits == {Px(1500)}
NoDraw == [type |-> "spike", u |-> 0, roll |-> "none", ptype |-> "SHIELD", v |-> 0]
SpawnDraws ==
  {[type |-> ty, u |-> 50, roll |-> "none", ptype |-> "SHIELD", v |-> 0] : ty \in ObstacleTypes}
  \cup {[type |-> ty, u |-> 50, roll |-> "collectible", ptype |-> "SHIELD", v |-> 50] :
          ty \in {"spike", "missile"}}
  \cup {[type |-> "wall", u |-> 50, roll |-> "powerup", ptype |-> pt, v |-> 50] : pt \in PowerUpTypes}

HasWave(obs) == \E i \in 1..Len(obs) : obs[i].type \in {"drone", "mine"}
HasRisingStomp(obs) == \E i \in 1..Len(obs) : obs[i].type = "stomp" /\ obs[i].state.stage = "rising"

\* ------------------------------------------------------------ resetGame, lines 98-123
NoEvents == [e \in SocialEvents |-> 0]

\* resetGame without lines 99-102: a pending timeout survives the reset
resetGameKeepsTimer ==
  /\ UNCHANGED <<timers, deathTimeoutRef>>
  /\ scoreRef' = 0
  /\ lastLevelRef' = 1
  /\ obstacles' = <<>>
  /\ collectibles' = <<>>
  /\ powerUps' = <<>>
  /\ nearMissedObstacles' = {}
  /\ activePowerUps' = EmptyMap
  /\ activeHudPowerUps' = {}
  /\ playerPos' = [x |-> Px(PLAYER_X), y |-> Px(GROUND_Y - PLAYER_SIZE)]
  /\ playerVel' = [x |-> 0, y |-> 0]
  /\ lastXDir' = 0
  /\ isDying' = FALSE
  /\ invincibleUntil' = 0
  /\ timeScale' = NORMAL_SPEED
  /\ hasMultiplier' = FALSE
  /\ emitted' = NoEvents
  /\ reports' = <<>>
  /\ deathSequences' = 0
  /\ scoreAtDeath' = 0

\* resetGame without line 117: the invincibility expiry survives the reset
resetGameKeepsInvincibility ==
  /\ timers' = {tm \in timers : deathTimeoutRef = 0 \/ tm.id # deathTimeoutRef}
  /\ deathTimeoutRef' = 0
  /\ scoreRef' = 0
  /\ lastLevelRef' = 1
  /\ obstacles' = <<>>
  /\ collectibles' = <<>>
  /\ powerUps' = <<>>
  /\ nearMissedObstacles' = {}
  /\ activePowerUps' = EmptyMap
  /\ activeHudPowerUps' = {}
  /\ playerPos' = [x |-> Px(PLAYER_X), y |-> Px(GROUND_Y - PLAYER_SIZE)]
  /\ playerVel' = [x |-> 0, y |-> 0]
  /\ lastXDir' = 0
  /\ isDying' = FALSE
  /\ UNCHANGED invincibleUntil
  /\ timeScale' = NORMAL_SPEED
  /\ hasMultiplier' = FALSE
  /\ emitted' = NoEvents
  /\ reports' = <<>>
  /\ deathSequences' = 0
  /\ scoreAtDeath' = 0

resetGame ==
  /\ timers' = {tm \in timers : deathTimeoutRef = 0 \/ tm.id # deathTimeoutRef}
  /\ deathTimeoutRef' = 0
  /\ scoreRef' = 0
  /\ lastLevelRef' = 1
  /\ obstacles' = <<>>
  /\ collectibles' = <<>>
  /\ powerUps' = <<>>
  /\ nearMissedObstacles' = {}
  /\ activePowerUps' = EmptyMap
  /\ activeHudPowerUps' = {}
  /\ playerPos' = [x |-> Px(PLAYER_X), y |-> Px(GROUND_Y - PLAYER_SIZE)]
  /\ playerVel' = [x |-> 0, y |-> 0]
  /\ lastXDir' = 0
  /\ isDying' = FALSE
  /\ invincibleUntil' = 0
  /\ timeScale' = NORMAL_SPEED
  /\ hasMultiplier' = FALSE
  /\ emitted' = NoEvents
  /\ reports' = <<>>
  /\ deathSequences' = 0
  /\ scoreAtDeath' = 0

noReset ==
  UNCHANGED <<timers, deathTimeoutRef, scoreRef, lastLevelRef, obstacles, collectibles,
              powerUps, nearMissedObstacles, activePowerUps, activeHudPowerUps, playerPos,
              playerVel, lastXDir, isDying, invincibleUntil, timeScale, hasMultiplier,
              emitted, reports, deathSequences, scoreAtDeath>>

\* ------------------------------------------------------------ actions
\* App.startGame (lines 62-70) and the gameState effect of GameCanvas (lines 125-132)
StartGame ==
  /\ gameState \in {"START", "GAMEOVER"}
  /\ gameState' = "PLAYING"
  /\ hostScore' = 0
  /\ IF isDying \/ (scoreRef = 0 /\ Len(obstacles) > 0) THEN resetGame ELSE noReset
  /\ log' = [op |-> "startGame"]
  /\ firstFrame' = TRUE
  /\ UNCHANGED <<serviceVars, hostVars, highScore, keysPressed, isJumping, now, nextId, ticks, keyEvents>>

\* the EDIT PROFILE button offered while the session is PLAYING too
EditProfileWhilePlaying ==
  /\ gameState \in {"PLAYING", "GAMEOVER"}
  /\ gameState' = "START"
  /\ resetGame
  /\ log' = [op |-> "editProfile"]
  /\ firstFrame' = FALSE
  /\ UNCHANGED <<serviceVars, hostVars, hostScore, highScore, keysPressed, isJumping, now, nextId, ticks, keyEvents>>

\* App line 169, EDIT PROFILE, and the gameState effect of GameCanvas (line 126)
EditProfile ==
  /\ gameState = "GAMEOVER"
  /\ gameState' = "START"
  /\ resetGame
  /\ log' = [op |-> "editProfile"]
  /\ firstFrame' = FALSE
  /\ UNCHANGED <<serviceVars, hostVars, hostScore, highScore, keysPressed, isJumping, now, nextId, ticks, keyEvents>>

\* GameCanvas under any host: the gameState prop set to START in mid-session, and the
\* gameState effect (line 126).  App itself offers this only in GAMEOVER.
SetStart ==
  /\ gameState = "PLAYING"
  /\ gameState' = "START"
  /\ resetGame
  /\ log' = [op |-> "setStart", pending |-> timers # {}]
  /\ firstFrame' = FALSE
  /\ UNCHANGED <<serviceVars, hostVars, hostScore, highScore, keysPressed, isJumping, now, nextId, ticks, keyEvents>>

\* handleKeyDown, lines 135-144
KeyDown(code) ==
  /\ keyEvents < MaxKeyEvents
  /\ keyEvents' = keyEvents + 1
  /\ keysPressed' = keysPressed \cup {code}
  /\ IF gameState = "PLAYING" /\ ~isDying /\ code \in JumpKeys /\ ~isJumping
     THEN /\ playerVel' = [playerVel EXCEPT !.y = JUMP_FORCE]
          /\ isJumping' = TRUE
          /\ log' = [op |-> "keydown", code |-> code, jumps |-> 1]
     ELSE /\ UNCHANGED <<playerVel, isJumping>>
          /\ log' = [op |-> "keydown", code |-> code, jumps |-> 0]
  /\ UNCHANGED <<serviceVars, hostVars, gameState, hostScore, highScore, playerPos, scoreRef, lastLevelRef, lastXDir,
                 isDying, invincibleUntil, timeScale, activePowerUps, obstacles, collectibles,
                 powerUps, nearMissedObstacles, deathTimeoutRef, hasMultiplier,
                 activeHudPowerUps, timers, now, nextId, ticks, emitted, reports,
                 deathSequences, scoreAtDeath, firstFrame>>

\* handleKeyUp, line 145
KeyUp(code) ==
  /\ keyEvents < MaxKeyEvents
  /\ keyEvents' = keyEvents + 1
  /\ code \in keysPressed
  /\ keysPressed' = keysPressed \ {code}
  /\ log' = [op |-> "keyup", code |-> code]
  /\ UNCHANGED <<serviceVars, hostVars, gameState, hostScore, highScore, playerPos, playerVel, isJumping, scoreRef,
                 lastLevelRef, lastXDir, isDying, invincibleUntil, timeScale, activePowerUps,
                 obstacles, collectibles, powerUps, nearMissedObstacles, deathTimeoutRef,
                 hasMultiplier, activeHudPowerUps, timers, now, nextId, ticks, emitted, reports,
                 deathSequences, scoreAtDeath, firstFrame>>

Tally(ev, e) == Cardinality({i \in 1..Len(ev) : ev[i] = e})

\* animate -> update(), lines 264-472 and 696-700: one frame while PLAYING.  A frame
\* runs before a pending timeout only if the timeout is not yet due.
Tick ==
  /\ gameState = "PLAYING"
  /\ ticks < MaxTicks
  /\ \E el \in Elapsed(now, invincibleUntil), pads \in Pads,
        sinv \in (IF HasWave(obstacles) THEN Waves ELSE {0}),
        cosv \in (IF HasWave(obstacles) THEN Waves ELSE {0}),
        wait \in (IF HasRisingStomp(obstacles) THEN StompWaits ELSE {0}) :
       /\ \A tm \in timers : now + el <= tm.due
       /\ \E in0 \in {[pads |-> pads, sinv |-> sinv, cosv |-> cosv, wait |-> wait, draw |-> NoDraw]} :
          \E r0 \in {Update(Refs, now + el, in0)} :
             \E draw \in (IF r0.log.spawned THEN SpawnDraws ELSE {NoDraw}) :
               \E r \in {IF draw = NoDraw THEN r0
                        ELSE Update(Refs, now + el, [in0 EXCEPT !.draw = draw])} :
                  /\ now' = now + el
                  /\ ticks' = ticks + 1
                  /\ playerPos' = r.playerPos
                  /\ playerVel' = r.playerVel
                  /\ isJumping' = r.isJumping
                  /\ lastXDir' = r.lastXDir
                  /\ scoreRef' = r.scoreRef
                  /\ lastLevelRef' = r.lastLevelRef
                  /\ isDying' = r.isDying
                  /\ invincibleUntil' = r.invincibleUntil
                  /\ timeScale' = r.timeScale
                  /\ activePowerUps' = r.activePowerUps
                  /\ obstacles' = r.obstacles
                  /\ collectibles' = r.collectibles
                  /\ powerUps' = r.powerUps
                  /\ nearMissedObstacles' = r.nearMissedObstacles
                  /\ deathTimeoutRef' = r.deathTimeoutRef
                  /\ timers' = r.timers
                  /\ nextId' = r.nextId
                  /\ hasMultiplier' = r.hasMultiplier
                  /\ activeHudPowerUps' = r.activeHudPowerUps
                  /\ hostScore' = r.hostScore
                  /\ emitted' = [e \in SocialEvents |-> emitted[e] + Tally(r.events, e)]
                  /\ deathSequences' = deathSequences + r.log.entered
                  /\ scoreAtDeath' = IF r.log.entered > 0 THEN r.log.scoreAtDeath ELSE scoreAtDeath
                  /\ firstFrame' = FALSE
                  /\ log' = r.log
  /\ UNCHANGED <<serviceVars, hostVars, gameState, highScore, keysPressed, keyEvents, reports>>

\* animate -> update() outside PLAYING: line 265 returns before anything is read
IdleFrame ==
  /\ gameState # "PLAYING"
  /\ log' = [op |-> "idle"]
  /\ UNCHANGED <<serviceVars, hostVars, gameState, hostScore, highScore, keysPressed, playerPos, playerVel, isJumping,
                 scoreRef, lastLevelRef, lastXDir, isDying, invincibleUntil, timeScale,
                 activePowerUps, obstacles, collectibles, powerUps, nearMissedObstacles,
                 deathTimeoutRef, hasMultiplier, activeHudPowerUps, timers, now, nextId, ticks,
                 keyEvents, emitted, reports, deathSequences, scoreAtDeath, firstFrame>>

\* the setTimeout callback of line 260 and App.handleGameOver, lines 72-76
DeathTimeout ==
  \E tm \in timers :
    /\ timers' = timers \ {tm}
    /\ now' = Max(now, tm.due)
    /\ IF isDying
       THEN /\ gameState' = "GAMEOVER"
            /\ hostScore' = Floor(scoreRef)
            /\ highScore' = Max(highScore, Floor(scoreRef))
            /\ reports' = Append(reports, Floor(scoreRef))
       ELSE UNCHANGED <<gameState, hostScore, highScore, reports>>
    /\ log' = [op |-> "timeout", fired |-> isDying]
    /\ UNCHANGED <<serviceVars, hostVars, keysPressed, playerPos, playerVel, isJumping, scoreRef, lastLevelRef,
                   lastXDir, isDying, invincibleUntil, timeScale, activePowerUps, obstacles,
                   collectibles, powerUps, nearMissedObstacles, deathTimeoutRef,
                   hasMultiplier, activeHudPowerUps, nextId, ticks, keyEvents, emitted,
                   deathSequences, scoreAtDeath, firstFrame>>

\* ------------------------------------------------------------ content service
\* src/unnamed/part_000 holds two revisions of the service: lines 1-166 and 170-342.
Revisions == {1, 2}
MIN_REQUEST_INTERVAL == 10000
MIN_REQUEST_INTERVAL_2 == 15000
CIRCUIT_BREAKER_DURATION == 300000
CIRCUIT_BREAKER_DURATION_2 == 600000
MAX_RETRIES == 2
MAX_RETRIES_2 == 1
BASE_DELAY == 5000
\* Date.now() when the first call is made, and the time a generateContent call takes
Epoch == 1000000
Latency == 200
\* the calls of the exported functions that a behaviour may make
MaxRequests == 2
Requests == 1..MaxRequests

MinRequestInterval(rev) == IF rev = 1 THEN MIN_REQUEST_INTERVAL ELSE MIN_REQUEST_INTERVAL_2
CircuitBreakerDuration(rev) ==
  IF rev = 1 THEN CIRCUIT_BREAKER_DURATION ELSE CIRCUIT_BREAKER_DURATION_2
MaxRetries(rev) == IF rev = 1 THEN MAX_RETRIES ELSE MAX_RETRIES_2

RECURSIVE Pow2(_)
Pow2(n) == IF n = 0 THEN 1 ELSE 2 * Pow2(n - 1)
\* a wait of baseDelay before every retry
BackoffDelayFlat(attempt) == BASE_DELAY
\* lines 91, 269: the wait before retry number attempt
BackoffDelay(attempt) == BASE_DELAY * Pow2(attempt - 1)

\* the names of FALLBACK_ENVIRONMENTS, and the previousBiomes arguments tried
FALLBACK_ENVIRONMENTS == {"Cobalt Grid", "Magma Core", "Static Void", "Jade Nexus"}
PreviousBiomes == {{"Cobalt Grid", "Magma Core", "Static Void"}, FALLBACK_ENVIRONMENTS}
Functions == {"fetchNewEnvironment", "fetchChatComments"}
\* what generateContent may do: return a text that parses, one that does not parse,
\* no text, or fail with a 429 or with any other error
Responses == {"json", "garbled", "empty", "rateLimit", "error"}

\* the values a call of an exported function settles with
NoResult == [kind |-> "none", name |-> ""]
Remote == [kind |-> "remote", name |-> ""]
FallbackEnv(n) == [kind |-> "fallback", name |-> n]
EmptyList == [kind |-> "empty", name |-> ""]
FallbackComments == [kind |-> "comments", name |-> ""]
Rejected == [kind |-> "rejected", name |-> ""]

Idle == [fn |-> "none", prev |-> {}, pc |-> "idle", attempt |-> 0, wake |-> 0,
         outcome |-> "none", result |-> NoResult]

\* how withRetry ends: with a returned value or with a thrown error
Returned(text) == [kind |-> "return", text |-> text]
Thrown(message) == [kind |-> "throw", text |-> message]

\* lines 58-61, 245-248
CircuitOpenAtEntry(rev) == IF rev = 1 THEN Thrown("RATE_LIMIT_COOLDOWN") ELSE Returned("null")
\* lines 83-87, 261-265
RateLimited(rev) == IF rev = 1 THEN Thrown("RATE_LIMIT_COOLDOWN") ELSE Returned("null")
\* lines 58-67, 245-254: withRetry up to its first await
WithRetryEntry(rev, t, openUntil, last) ==
  IF t < openUntil THEN "open"
  ELSE IF t - last < MinRequestInterval(rev) THEN "sleep"
  ELSE "call"

AnyFallback == {FallbackEnv(n) : n \in FALLBACK_ENVIRONMENTS}
\* lines 131-134, 284-287, 313-316
FilteredFallback(prev) ==
  LET availableFallbacks == FALLBACK_ENVIRONMENTS \ prev
  IN {FallbackEnv(n) : n \in (IF availableFallbacks # {} THEN availableFallbacks
                              ELSE FALLBACK_ENVIRONMENTS)}

\* lines 106-108, 283-288
EnvOnOpenCircuit(rev, prev) == IF rev = 1 THEN AnyFallback ELSE FilteredFallback(prev)
\* lines 139, 321
ChatOnOpenCircuit == {EmptyList}

\* lines 110-126, 291-306: the try block of fetchNewEnvironment given withRetry's end
EnvTry(rev, w) ==
  IF w.kind = "throw" THEN [kind |-> "throw", values |-> {}]
  ELSE IF w.text \in {"empty", "null"}
       THEN IF rev = 1 THEN [kind |-> "return", values |-> AnyFallback]
            ELSE [kind |-> "throw", values |-> {}]
  ELSE IF w.text = "garbled" THEN [kind |-> "throw", values |-> {}]
  ELSE [kind |-> "return", values |-> {Remote}]

\* a catch block that passes the error on
EnvCatchRethrows(prev) == {Rejected}
\* lines 127-135, 307-317
EnvCatch(prev) == FilteredFallback(prev)

fetchNewEnvironmentEnd(rev, w, prev) ==
  IF EnvTry(rev, w).kind = "throw" THEN EnvCatch(prev) ELSE EnvTry(rev, w).values

\* lines 141-156, 323-339: the try block of fetchChatComments
ChatTry(rev, w) ==
  IF w.kind = "throw" THEN [kind |-> "throw", values |-> {}]
  ELSE IF w.text \in {"empty", "null"} THEN [kind |-> "return", values |-> {EmptyList}]
  ELSE IF w.text = "garbled" THEN [kind |-> "throw", values |-> {}]
  ELSE [kind |-> "return", values |-> {Remote}]

\* lines 157-165, 340-342
ChatCatch(rev) == IF rev = 1 THEN {FallbackComments} ELSE {EmptyList}

fetchChatCommentsEnd(rev, w) ==
  IF ChatTry(rev, w).kind = "throw" THEN ChatCatch(rev) ELSE ChatTry(rev, w).values

\* the values the call req may settle with once withRetry has ended with w
Settlements(rev, req, w) ==
  IF req.fn = "fetchNewEnvironment" THEN fetchNewEnvironmentEnd(rev, w, req.prev)
  ELSE fetchChatCommentsEnd(rev, w)

Sleeping(req) == req.pc \in {"throttle", "backoff"}
\* the sleep of call r is the next to end
NextToWake(r) == \A q \in Requests : Sleeping(requests[q]) => requests[r].wake <= requests[q].wake

\* an exported function is called: the circuit test, then withRetry up to its first await
Fetch(r, fn, prev) ==
  /\ requests[r].pc = "idle"
  /\ \A q \in Requests : q < r => requests[q].pc # "idle"
  /\ fn = "fetchChatComments" <=> prev = {}
  /\ LET req == [Idle EXCEPT !.fn = fn, !.prev = prev]
         entry == WithRetryEntry(revision, now, circuitOpenUntil, lastRequestTime)
     IN IF now < circuitOpenUntil
        THEN /\ \E v \in (IF fn = "fetchNewEnvironment" THEN EnvOnOpenCircuit(revision, prev)
                          ELSE ChatOnOpenCircuit) :
                  requests' = [requests EXCEPT ![r] =
                     [req EXCEPT !.pc = "done", !.outcome = "circuitOpen", !.result = v]]
             /\ UNCHANGED <<lastRequestTime, apiCalls>>
        ELSE CASE entry = "open" ->
                    /\ \E v \in Settlements(revision, req, CircuitOpenAtEntry(revision)) :
                         requests' = [requests EXCEPT ![r] =
                            [req EXCEPT !.pc = "done", !.outcome = "circuitOpen", !.result = v]]
                    /\ UNCHANGED <<lastRequestTime, apiCalls>>
               [] entry = "sleep" ->
                    /\ requests' = [requests EXCEPT ![r] =
                         [req EXCEPT !.pc = "throttle",
                                     !.wake = lastRequestTime + MinRequestInterval(revision)]]
                    /\ UNCHANGED <<lastRequestTime, apiCalls>>
               [] OTHER ->
                    /\ lastRequestTime' = now
                    /\ apiCalls' = apiCalls \cup {[at |-> now, by |-> r, attempt |-> 0]}
                    /\ requests' = [requests EXCEPT ![r] = [req EXCEPT !.pc = "calling"]]
  /\ UNCHANGED <<revision, circuitOpenUntil, rateLimits, now, gameVars, hostVars>>

\* lines 65-72, 252-259: the throttle sleep ends and the call is made
ThrottleWake(r) ==
  /\ requests[r].pc = "throttle" /\ NextToWake(r)
  /\ now' = Max(now, requests[r].wake)
  /\ lastRequestTime' = now'
  /\ apiCalls' = apiCalls \cup {[at |-> now', by |-> r, attempt |-> 0]}
  /\ requests' = [requests EXCEPT ![r].pc = "calling"]
  /\ UNCHANGED <<revision, circuitOpenUntil, rateLimits, gameVars, hostVars>>

\* lines 72-96, 259-273: generateContent settles; the rest of the function runs
Respond(r, resp) ==
  /\ requests[r].pc = "calling"
  /\ \A q \in Requests : Sleeping(requests[q]) => now + Latency <= requests[q].wake
  /\ now' = now + Latency
  /\ CASE resp = "rateLimit" ->
            /\ circuitOpenUntil' = now' + CircuitBreakerDuration(revision)
            /\ rateLimits' = rateLimits \cup {now'}
            /\ \E v \in Settlements(revision, requests[r], RateLimited(revision)) :
                 requests' = [requests EXCEPT ![r] =
                    [@ EXCEPT !.pc = "done", !.outcome = "rateLimit",
                              !.result = v]]
       [] resp = "error" ->
            /\ IF requests[r].attempt < MaxRetries(revision)
               THEN requests' = [requests EXCEPT ![r] =
                      [@ EXCEPT !.pc = "backoff", !.attempt = @ + 1,
                                !.wake = now' + BackoffDelay(requests[r].attempt + 1)]]
               ELSE \E v \in Settlements(revision, requests[r], Thrown("error")) :
                      requests' = [requests EXCEPT ![r] =
                         [@ EXCEPT !.pc = "done", !.outcome = "exhausted",
                                   !.result = v]]
            /\ UNCHANGED <<circuitOpenUntil, rateLimits>>
       [] OTHER ->
            /\ \E v \in Settlements(revision, requests[r], Returned(resp)) :
                 requests' = [requests EXCEPT ![r] =
                    [@ EXCEPT !.pc = "done", !.outcome = resp,
                              !.result = v]]
            /\ UNCHANGED <<circuitOpenUntil, rateLimits>>
  /\ UNCHANGED <<revision, lastRequestTime, apiCalls, gameVars, hostVars>>

\* lines 92-93 and 72, 269-270 and 259: the backoff sleep ends and the call is made again
BackoffWake(r) ==
  /\ requests[r].pc = "backoff" /\ NextToWake(r)
  /\ now' = Max(now, requests[r].wake)
  /\ apiCalls' = apiCalls \cup {[at |-> now', by |-> r, attempt |-> requests[r].attempt]}
  /\ requests' = [requests EXCEPT ![r].pc = "calling"]
  /\ UNCHANGED <<revision, lastRequestTime, circuitOpenUntil, rateLimits, gameVars, hostVars>>

\* nothing happens until the cooldown is over
CooldownEnds ==
  /\ now < circuitOpenUntil
  /\ \A q \in Requests : Sleeping(requests[q]) => circuitOpenUntil <= requests[q].wake
  /\ now' = circuitOpenUntil
  /\ UNCHANGED <<serviceVars, gameVars, hostVars>>

\* ------------------------------------------------------------ initial states
\* The program starts in START with every ref at its initial value (lines 59-80).
\* To reach collisions within MaxTicks frames the model also starts from frames taken
\* in the middle of a session: the state right after an update() at clock 0, with the
\* player on the ground or in the third frame of a jump, up to two obstacles close to
\* the player, one obstacle further back, and pickups, registry entries and an
\* invincibility window that earlier frames can have left.
Obs(type, x, y, st) ==
  [id |-> 0, x |-> Px(x), y |-> Px(y), baseY |-> Px(y), width |-> ObstacleWidth(type),
   height |-> ObstacleHeight(type), type |-> type, speedMultiplier |-> 100, state |-> st]

Laser(timer, active) == [NoState EXCEPT !.timer = Px(timer), !.active = active]
Stomp(stage, timer, played) ==
  [NoState EXCEPT !.stage = stage, !.timer = Px(timer), !.impactSoundPlayed = played]
Missile(speed) == [NoState EXCEPT !.speed = speed]

Ground == [x |-> Px(PLAYER_X), y |-> Px(GROUND_Y - PLAYER_SIZE), vy |-> 0, isJumping |-> FALSE]
\* two frames after a jump from the ground
Air == [x |-> Px(PLAYER_X), y |-> 26240, vy |-> -1340, isJumping |-> TRUE]
\* on the ground, 3 from the left edge and 2 from the right edge of the play field
LeftEdge == [Ground EXCEPT !.x = Px(3)]
RightEdge == [Ground EXCEPT !.x = Px(CANVAS_WIDTH - PLAYER_SIZE - 2)]
\* thirty-six frames after a jump from the ground: the next frame lands
Landing == [x |-> Px(PLAYER_X), y |-> 28280, vy |-> 1380, isJumping |-> TRUE]

Spike(x) == Obs("spike", x, 290, NoState)
Rocket(x, y) == Obs("missile", x, y, Missile(Px(10)))
LastObstacle == Spike(700)

\* one obstacle about to reach a player on the ground
SingleObstacles ==
  {Spike(124), Obs("wall", 124, 260, NoState), Obs("saw", 124, 280, NoState),
   Obs("laser", 124, 0, Laser(0, TRUE)), Obs("laser", 124, 0, Laser(1990, FALSE)),
   Obs("laser", 124, 0, Laser(1990, TRUE)),
   Obs("stomp", 124, -80, Stomp("waiting", 10, FALSE)),
   Obs("stomp", 124, 215, Stomp("dropping", 0, FALSE)),
   Obs("stomp", 155, 240, Stomp("rising", 10, TRUE)),
   Obs("stomp", 155, -79, Stomp("rising", -100, TRUE)),
   Obs("drone", 124, 240, NoState), Obs("mine", 124, 220, NoState),
   Rocket(130, 290)}

\* an obstacle and a missile that has caught up with it
PairedObstacles ==
  {<<a, Rocket(130, 290)>> :
     a \in {Spike(124), Obs("laser", 124, 0, Laser(0, TRUE)),
            Obs("stomp", 124, 215, Stomp("dropping", 0, FALSE))}}

\* obstacles about to come within the near-miss radius
ApproachingObstacles == {<<>>, <<Spike(155)>>, <<Rocket(150, 290)>>, <<Spike(155), Rocket(150, 290)>>}

WithIds(list, first) == [i \in 1..Len(list) |-> [list[i] EXCEPT !.id = first + i - 1]]
\* obstacles in spawn order: the i-th was spawned when the score was 300 * i
SpawnedInOrder(list) ==
  [i \in 1..Len(list) |->
     [list[i] EXCEPT !.id = i, !.speedMultiplier = SpeedMultiplier(Px(300) * i)]]

PowerUpAt(x, y, pt) ==
  [id |-> 0, x |-> Px(x), y |-> Px(y), size |-> Px(30), type |-> pt, collected |-> FALSE]
CollectibleAt(x, y) ==
  [id |-> 0, x |-> Px(x), y |-> Px(y), size |-> Px(20), collected |-> FALSE]

\* frames in which an obstacle reaches the player
InitHazard ==
  /\ obstacles \in {SpawnedInOrder(l \o <<LastObstacle>>) :
                      l \in {<<a>> : a \in SingleObstacles} \cup PairedObstacles}
  /\ \E pl \in {Ground, Air} :
       /\ playerPos = [x |-> pl.x, y |-> pl.y]
       /\ playerVel = [x |-> 0, y |-> pl.vy]
       /\ isJumping = pl.isJumping
       /\ powerUps \in {<<>>} \cup (IF pl = Air THEN {WithIds(<<PowerUpAt(118, 220, "SHIELD")>>, 4)}
                                    ELSE {})
  /\ collectibles = <<>>
  /\ activePowerUps \in {EmptyMap, [t \in {"SHIELD"} |-> 5000]}
  /\ invincibleUntil \in {0, 20}
  /\ scoreRef = Px(1450)

\* frames in which the score changes
InitScoring ==
  /\ obstacles \in {SpawnedInOrder(l \o <<LastObstacle>>) : l \in ApproachingObstacles}
  /\ \E pl \in {Ground, Air} :
       /\ playerPos = [x |-> pl.x, y |-> pl.y]
       /\ playerVel = [x |-> 0, y |-> pl.vy]
       /\ isJumping = pl.isJumping
  /\ powerUps \in {<<>>} \cup {WithIds(<<PowerUpAt(118, 220, pt)>>, 4) : pt \in {"MULTIPLIER", "BOOST"}}
  /\ collectibles \in {<<>>} \cup {WithIds(<<CollectibleAt(118, y)>>, 5) : y \in {230, 260}}
  /\ activePowerUps \in {EmptyMap, [t \in {"MULTIPLIER"} |-> 8], [t \in {"MULTIPLIER"} |-> 5000],
                         [t \in {"BOOST"} |-> 5000]}
  /\ invincibleUntil = 0
  /\ scoreRef = Px(950)

\* the last obstacle well past the spawn threshold at score 2000, and just short of
\* it and just past it at a score above 4500, where the threshold is 700
SpawningCases == {[x |-> 560, score |-> 2000], [x |-> 706, score |-> 4600],
                  [x |-> 712, score |-> 4600]}

\* frames in which the last obstacle has come far enough for the next to spawn
InitSpawning ==
  /\ \E c \in SpawningCases :
       obstacles = SpawnedInOrder(<<Spike(c.x)>>) /\ scoreRef = Px(c.score)
  /\ \E pl \in {Ground, Landing, LeftEdge, RightEdge} :
       /\ playerPos = [x |-> pl.x, y |-> pl.y]
       /\ playerVel = [x |-> 0, y |-> pl.vy]
       /\ isJumping = pl.isJumping
  /\ powerUps = <<>> /\ collectibles = <<>>
  /\ activePowerUps = EmptyMap
  /\ invincibleUntil = 0

\* frames in which the passive score crosses a level boundary with an obstacle
\* about to reach the player
InitLevel ==
  /\ obstacles \in {SpawnedInOrder(<<a, LastObstacle>>) :
                      a \in {Spike(124), Obs("laser", 126, 0, Laser(0, TRUE))}}
  /\ playerPos = [x |-> Ground.x, y |-> Ground.y]
  /\ playerVel = [x |-> 0, y |-> Ground.vy]
  /\ isJumping = Ground.isJumping
  /\ powerUps = <<>> /\ collectibles = <<>>
  /\ activePowerUps \in {EmptyMap, [t \in {"SHIELD"} |-> 5000]}
  /\ invincibleUntil = 0
  /\ scoreRef = Px(2000) - 50

\* frames around a death in mid-air: a laser kills on the first frame, and a
\* power-up and a collectible reach the player, and a missile comes within the
\* near-miss radius, on the frame after it
InitDeath ==
  /\ obstacles = SpawnedInOrder(<<Obs("laser", 126, 0, Laser(0, TRUE)), Rocket(150, 290),
                                  LastObstacle>>)
  /\ playerPos = [x |-> Air.x, y |-> Air.y]
  /\ playerVel = [x |-> 0, y |-> Air.vy]
  /\ isJumping = Air.isJumping
  /\ powerUps = WithIds(<<PowerUpAt(133, 220, "BOOST")>>, 4)
  /\ collectibles = WithIds(<<CollectibleAt(133, 250)>>, 5)
  /\ activePowerUps \in {EmptyMap, [t \in {"MULTIPLIER"} |-> 20]}
  /\ invincibleUntil = 0
  /\ scoreRef = Px(1450)

InitApp ==
  /\ hostScore = 0 /\ highScore = 0
  /\ timers = {} /\ deathTimeoutRef = 0 /\ isDying = FALSE /\ timeScale = NORMAL_SPEED
  /\ lastXDir = 0 /\ ticks = 0 /\ keyEvents = 0 /\ reports = <<>>
  /\ deathSequences = 0 /\ scoreAtDeath = 0 /\ firstFrame = FALSE
  /\ log = [op |-> "init"]

InitStart ==
  /\ gameState = "START"
  /\ playerPos = [x |-> Px(PLAYER_X), y |-> Px(GROUND_Y - PLAYER_SIZE)]
  /\ playerVel = [x |-> 0, y |-> 0]
  /\ isJumping = FALSE
  /\ scoreRef = 0 /\ lastLevelRef = 1 /\ invincibleUntil = 0
  /\ activePowerUps = EmptyMap /\ hasMultiplier = FALSE /\ activeHudPowerUps = {}
  /\ obstacles = <<>> /\ collectibles = <<>> /\ powerUps = <<>>
  /\ nearMissedObstacles = {}
  /\ nextId = 1
  /\ emitted = NoEvents

InitPlaying ==
  /\ gameState = "PLAYING"
  /\ InitHazard \/ InitScoring \/ InitSpawning \/ InitLevel \/ InitDeath
  /\ nextId = 6
  /\ hasMultiplier = MapHas(activePowerUps, "MULTIPLIER")
  /\ activeHudPowerUps = HudUpdates(activePowerUps, 0)
  \* the frame at clock 0 credited every obstacle within the near-miss radius,
  \* took every pickup the player overlapped, and, unless invincible, found no hit
  /\ nearMissedObstacles = {obstacles[i].id : i \in {j \in 1..Len(obstacles) :
                                Near(obstacles[j], playerPos.x, playerPos.y)}}
  /\ \A i \in 1..Len(powerUps) : ~Overlap(playerPos, powerUps[i])
  /\ \A i \in 1..Len(collectibles) : ~Overlap(playerPos, collectibles[i])
  /\ invincibleUntil = 0 => \A i \in 1..Len(obstacles) : ~Hit(obstacles[i], playerPos)
  /\ scoreRef >= Px(500) * Cardinality(nearMissedObstacles) + Px(105)
  /\ lastLevelRef = Level(scoreRef)
  /\ emitted = [e \in SocialEvents |->
                  CASE e = "LEVEL_UP" -> lastLevelRef - 1
                    [] e = "NEAR_MISS" -> Cardinality(nearMissedObstacles)
                    [] e = "POWERUP" -> Cardinality(DOMAIN activePowerUps)
                    [] OTHER -> 0]

\* the content service as loaded: no call made yet (lines 49-52, 217-220)
InitService ==
  /\ lastRequestTime = 0 /\ circuitOpenUntil = 0
  /\ requests = [r \in Requests |-> Idle]
  /\ apiCalls = {} /\ rateLimits = {}

\* lines 7-13: DEFAULT_ENVIRONMENT, by its name
DEFAULT_ENVIRONMENT == "Neon Gutter"
\* the environments fetchNewEnvironment may settle with, by name: a fallback of the
\* service or a generated one
NewEnvironments == {"Magma Core", "Generated"}

\* App as mounted: no environment request made (lines 22-24)
InitHost ==
  /\ isTransitioning = FALSE /\ lastShiftRef = 0
  /\ envRequests = <<>> /\ cooldowns = {}
  /\ environment = DEFAULT_ENVIRONMENT /\ biomeHistory = <<DEFAULT_ENVIRONMENT>>
  /\ sessionRequests = 0

\* a key is held at the start only where the player stands at the right edge
InitKeys == keysPressed = IF playerPos.x = RightEdge.x THEN {"ArrowRight"} ELSE {}

Init ==
  /\ InitApp /\ (InitStart \/ InitPlaying) /\ InitKeys /\ now = 0
  /\ InitService /\ revision = 2
  /\ InitHost

Next ==
  \/ StartGame
  \/ EditProfile
  \/ \E code \in Keys : KeyDown(code)
  \/ \E code \in Keys : KeyUp(code)
  \/ Tick
  \/ IdleFrame
  \/ DeathTimeout

Spec == Init /\ [][Next]_vars

\* the browser runs a timeout that is due
LiveSpec == Spec /\ WF_vars(DeathTimeout)

\* GameCanvas mounted in a host that may also leave PLAYING for START at any time
CanvasNext ==
  \/ Next
  \/ SetStart

CanvasSpec == Init /\ [][CanvasNext]_vars

\* the content service under any caller, the game on its start screen
ServiceInit ==
  /\ InitApp /\ InitStart /\ now = Epoch /\ keysPressed = {}
  /\ InitService /\ revision \in Revisions
  /\ InitHost

ServiceNext ==
  \/ \E r \in Requests, fn \in Functions, prev \in PreviousBiomes \cup {{}} : Fetch(r, fn, prev)
  \/ \E r \in Requests : ThrottleWake(r)
  \/ \E r \in Requests, resp \in Responses : Respond(r, resp)
  \/ \E r \in Requests : BackoffWake(r)
  \/ CooldownEnds

ServiceSpec == ServiceInit /\ [][ServiceNext]_vars

\* a timer that is due fires (sleep, line 46), and a generateContent call settles
ServiceLiveSpec ==
  /\ ServiceSpec
  /\ WF_vars(\E r \in Requests : ThrottleWake(r))
  /\ WF_vars(\E r \in Requests, resp \in Responses : Respond(r, resp))
  /\ WF_vars(\E r \in Requests : BackoffWake(r))

\* ------------------------------------------------------------ App: biome shifts
\* App.tsx lines 26-54 with GameCanvas reduced to what it tells the host: the scores
\* of onScoreUpdate and the final score of onGameOver.
MILESTONE == 5000
COOLDOWN == 30000
MaxEnvRequests == 2
\* the scores onScoreUpdate and onGameOver may deliver
Scores == {4999, 5000, 10000}

\* line 49
Milestone(score) == score \div MILESTONE
\* a timer of line 41 that is due at once
CooldownDueAtOnce(t) == t
\* line 41
CooldownDue(t) == t + COOLDOWN

\* lines 46-54 and 27-32: the effect after a render with the given state, and
\* handleBiomeShift up to its await
ShiftEffect(gs, score, last, trans) ==
  IF gs = "PLAYING" /\ Milestone(score) > last /\ ~trans
  THEN /\ Len(envRequests) < MaxEnvRequests
       /\ lastShiftRef' = Milestone(score)
       /\ isTransitioning' = TRUE
       /\ envRequests' = Append(envRequests,
            [started |-> now', milestone |-> Milestone(score), settled |-> -1])
  ELSE /\ lastShiftRef' = last
       /\ isTransitioning' = trans
       /\ UNCHANGED envRequests

\* onScoreUpdate = setScore (line 116), then the effect
ScoreUpdate(score) ==
  /\ gameState = "PLAYING"
  /\ hostScore' = score
  /\ now' = now
  /\ ShiftEffect(gameState, score, lastShiftRef, isTransitioning)
  /\ UNCHANGED <<gameState, highScore, cooldowns, environment, biomeHistory,
                 sessionRequests, serviceVars, canvasVars>>

\* startGame, lines 62-70, then the effect
HostStartGame ==
  /\ gameState \in {"START", "GAMEOVER"}
  /\ gameState' = "PLAYING"
  /\ hostScore' = 0
  /\ now' = now
  /\ environment' = DEFAULT_ENVIRONMENT
  /\ biomeHistory' = <<DEFAULT_ENVIRONMENT>>
  /\ sessionRequests' = Len(envRequests)
  /\ ShiftEffect("PLAYING", 0, 0, isTransitioning)
  /\ UNCHANGED <<highScore, cooldowns, serviceVars, canvasVars>>

\* handleGameOver, lines 72-76, then the effect
HostGameOver(finalScore) ==
  /\ gameState = "PLAYING"
  /\ gameState' = "GAMEOVER"
  /\ hostScore' = finalScore
  /\ highScore' = Max(highScore, finalScore)
  /\ now' = now
  /\ ShiftEffect("GAMEOVER", finalScore, lastShiftRef, isTransitioning)
  /\ UNCHANGED <<cooldowns, environment, biomeHistory, sessionRequests, serviceVars,
                 canvasVars>>

\* line 169, then the effect
HostEditProfile ==
  /\ gameState = "GAMEOVER"
  /\ gameState' = "START"
  /\ now' = now
  /\ ShiftEffect("START", hostScore, lastShiftRef, isTransitioning)
  /\ UNCHANGED <<hostScore, highScore, cooldowns, environment, biomeHistory,
                 sessionRequests, serviceVars, canvasVars>>

\* lines 32-42: fetchNewEnvironment settles; the finally block starts the cooldown
\* timer (the effect that runs after setBiomeHistory finds isTransitioning true)
EnvSettles ==
  \E i \in 1..Len(envRequests) :
    /\ envRequests[i].settled = -1
    /\ \A d \in cooldowns : now + Latency <= d
    /\ now' = now + Latency
    /\ envRequests' = [envRequests EXCEPT ![i].settled = now']
    /\ \E newEnv \in NewEnvironments :
         /\ environment' = newEnv
         /\ biomeHistory' = Append(biomeHistory, newEnv)
    /\ cooldowns' = cooldowns \cup {CooldownDue(now')}
    /\ UNCHANGED <<gameState, hostScore, highScore, isTransitioning, lastShiftRef,
                   sessionRequests, serviceVars, canvasVars>>

\* the callback of line 41, then the effect
CooldownTimeout ==
  \E d \in cooldowns :
    /\ \A e \in cooldowns : d <= e
    /\ now' = Max(now, d)
    /\ cooldowns' = cooldowns \ {d}
    /\ ShiftEffect(gameState, hostScore, lastShiftRef, FALSE)
    /\ UNCHANGED <<gameState, hostScore, highScore, environment, biomeHistory,
                   sessionRequests, serviceVars, canvasVars>>

HostNext ==
  \/ \E score \in Scores : ScoreUpdate(score)
  \/ HostStartGame
  \/ \E score \in Scores : HostGameOver(score)
  \/ HostEditProfile
  \/ EnvSettles
  \/ CooldownTimeout

HostInit ==
  /\ InitApp /\ InitStart /\ now = 0 /\ keysPressed = {}
  /\ InitService /\ revision = 2
  /\ InitHost

HostSpec == HostInit /\ [][HostNext]_vars

\* ------------------------------------------------------------ one stomp, frame after frame
\* update() as it acts on one stomp obstacle, lines 365-394, for as long as frames
\* come: the stomp's stage, timer and height depend on nothing but the stomp and
\* timeScale. The scroll decides only when the stomp leaves the list (line 412).
StompFrame ==
  /\ gameState = "PLAYING" /\ obstacles # <<>>
  /\ \E wait \in StompWaits :
       obstacles' = <<StompStep(obstacles[1], timeScale, wait)>>
  /\ log' = [op |-> "stomp",
             impacts |-> IF StompImpact(obstacles[1], timeScale) THEN {obstacles[1].id} ELSE {}]
  /\ UNCHANGED <<serviceVars, hostVars, now, gameState, hostScore, highScore, keysPressed,
                 playerPos, playerVel, isJumping, scoreRef, lastLevelRef, lastXDir, isDying,
                 invincibleUntil, timeScale, activePowerUps, collectibles, powerUps,
                 nearMissedObstacles, deathTimeoutRef, timers, nextId, hasMultiplier,
                 activeHudPowerUps, emitted, ticks, keyEvents, reports, deathSequences,
                 scoreAtDeath, firstFrame>>

\* triggerDeathSequence, lines 244-262, as far as the stomp sees it
StompDeath ==
  /\ gameState = "PLAYING" /\ ~isDying
  /\ isDying' = TRUE /\ timeScale' = SLOW_MOTION
  /\ log' = [op |-> "death"]
  /\ UNCHANGED <<serviceVars, hostVars, now, gameState, hostScore, highScore, keysPressed,
                 playerPos, playerVel, isJumping, scoreRef, lastLevelRef, lastXDir,
                 invincibleUntil, activePowerUps, obstacles, collectibles, powerUps,
                 nearMissedObstacles, deathTimeoutRef, timers, nextId, hasMultiplier,
                 activeHudPowerUps, emitted, ticks, keyEvents, reports, deathSequences,
                 scoreAtDeath, firstFrame>>

\* line 412: the stomp has scrolled off the stage
StompLeaves ==
  /\ gameState = "PLAYING" /\ obstacles # <<>>
  /\ obstacles' = <<>>
  /\ log' = [op |-> "filter"]
  /\ UNCHANGED <<serviceVars, hostVars, now, gameState, hostScore, highScore, keysPressed,
                 playerPos, playerVel, isJumping, scoreRef, lastLevelRef, lastXDir, isDying,
                 invincibleUntil, timeScale, activePowerUps, collectibles, powerUps,
                 nearMissedObstacles, deathTimeoutRef, timers, nextId, hasMultiplier,
                 activeHudPowerUps, emitted, ticks, keyEvents, reports, deathSequences,
                 scoreAtDeath, firstFrame>>

StompNext == StompFrame \/ StompDeath \/ StompLeaves

\* a session in which a stomp has just been spawned (line 226)
StompInit ==
  /\ InitApp /\ now = 0 /\ keysPressed = {}
  /\ InitService /\ revision = 2
  /\ InitHost
  /\ gameState = "PLAYING"
  /\ playerPos = [x |-> Ground.x, y |-> Ground.y]
  /\ playerVel = [x |-> 0, y |-> 0]
  /\ isJumping = FALSE
  /\ scoreRef = 0 /\ lastLevelRef = 1 /\ invincibleUntil = 0
  /\ activePowerUps = EmptyMap /\ hasMultiplier = FALSE /\ activeHudPowerUps = {}
  /\ collectibles = <<>> /\ powerUps = <<>>
  /\ nearMissedObstacles = {}
  /\ nextId = 2
  /\ emitted = NoEvents
  /\ obstacles \in {<<NewObstacle(1, "stomp", u, Ground.y, 0)>> : u \in {0, 50}}

\* requestAnimationFrame calls update again after every frame (lines 696-700)
StompSpec == StompInit /\ [][StompNext]_vars /\ WF_vars(StompFrame)

\* ------------------------------------------------------------ properties
\* the last handler was a frame of update()
Updated == log.op = "update"
\* the step is a frame of update()
IsTick == ticks' = ticks + 1

\* C1: on a frame that starts outside the invincibility window with SHIELD in the
\* registry and detects a hazard hit (also when several obstacles overlap the
\* player), SHIELD is gone after the frame, invincibility ends 1000 ms after the
\* frame's clock, and the death sequence has not been entered.
C1_ShieldAbsorbsHit ==
  (Updated /\ ~log.dying /\ ~log.invincible /\ log.shield /\ log.hits >= 1)
    => /\ ~MapHas(activePowerUps, "SHIELD")
       /\ invincibleUntil = log.t + SHIELD_RECOVERY
       /\ ~isDying
       /\ log.entered = 0

\* C2: a hit without SHIELD outside the invincibility window enters the death
\* sequence, and the sequence is entered once per session: later calls schedule no
\* second timer and bring no second report.
C2_DeathSequenceOnce ==
  /\ deathSequences <= 1
  /\ isDying <=> deathSequences = 1
  /\ Cardinality(timers) <= 1
  /\ Len(reports) <= 1
  /\ isDying /\ gameState = "PLAYING" =>
       timers = {[id |-> deathTimeoutRef, due |-> tm.due] : tm \in timers} /\ timers # {}
  /\ Updated =>
       /\ log.dying => log.entered = 0 /\ log.deathCalls = 0
       /\ ~log.dying /\ log.deathCalls >= 1 =>
            /\ log.entered = 1
            /\ isDying
            /\ timers = {[id |-> deathTimeoutRef, due |-> log.t + DEATH_DELAY]}
       /\ ~log.dying /\ ~log.invincible /\ ~log.shield /\ log.hits >= 1 =>
            log.deathCalls = log.hits
       /\ log.deathCalls = 0 => log.entered = 0

\* C2, its case: one frame called triggerDeathSequence twice and the sequence was
\* entered once
C2_Witness == Updated /\ log.deathCalls >= 2 /\ deathSequences = 1 /\ Cardinality(timers) = 1

\* C3: the number of LEVEL_UP events since the reset is always the recorded level
\* minus one, also when the score crosses two 1000-point boundaries between two
\* level checks.
C3_LevelUpPerBoundary == emitted["LEVEL_UP"] = lastLevelRef - 1

Range(s) == {s[i] : i \in 1..Len(s)}
IsReset == log'.op \in {"startGame", "editProfile"} /\ scoreRef' = 0 /\ nearMissedObstacles' = {}

\* C4: on a frame of a session that is not dying the score does not decrease, and
\* the score is never negative.
C4_ScoreMonotone ==
  /\ [](scoreRef >= 0)
  /\ [][IsTick /\ ~isDying => scoreRef' >= scoreRef]_vars

\* C4, its case: a frame outside the death sequence on which the score rose by the
\* passive increment, a near miss and a collectible
C4_Witness ==
  Updated /\ ~log.dying /\ log.passive > 0 /\ Len(log.credited) > 0 /\ log.collectGain > 0

\* C5: an obstacle id is credited with a near miss at most once per session; a
\* credit adds 500 to the score and emits one NEAR_MISS event; the set of credited
\* ids only grows until the next reset.
C5_NearMissOnce ==
  /\ [][IsTick =>
         LET new == nearMissedObstacles' \ nearMissedObstacles
             credited == log'.credited
         IN /\ nearMissedObstacles \subseteq nearMissedObstacles'
            /\ Range(credited) = new
            /\ Len(credited) = Cardinality(new)
            /\ Tally(log'.events, "NEAR_MISS") = Cardinality(new)
            /\ emitted'["NEAR_MISS"] = emitted["NEAR_MISS"] + Cardinality(new)
            /\ scoreRef' = scoreRef + log'.passive + Px(500) * Cardinality(new)
                             + log'.collectGain]_vars
  /\ [][nearMissedObstacles \subseteq nearMissedObstacles' \/ IsReset]_vars

\* C5, its case: an obstacle credited on an earlier frame is still within the
\* near-miss radius and is not credited again
C5_Witness ==
  /\ Updated /\ ~log.dying
  /\ \E i \in 1..Len(obstacles) :
       /\ Near(obstacles[i], playerPos.x, playerPos.y)
       /\ obstacles[i].id \in nearMissedObstacles
       /\ obstacles[i].id \notin Range(log.credited)

\* C6: a collectible picked up adds 100 to the score when the registry holds no
\* unexpired MULTIPLIER entry at that moment, and 300 when it does (an entry picked
\* up earlier on the same frame included), and emits one COLLECT event.
C6_CollectValue ==
  (Updated /\ ~log.dying)
    => /\ log.collectGain =
            log.taken * (IF MapHas(activePowerUps, "MULTIPLIER") THEN Px(300) ELSE Px(100))
       /\ Tally(log.events, "COLLECT") = log.taken

\* C7: the passive increment of a frame is gameSpeed / 8, times 2.5 when the
\* MULTIPLIER entry has not expired at the frame's clock, with
\* gameSpeed = (6 + score / 1200) * timeScale; a frame that purges the MULTIPLIER
\* entry as expired does not accrue at 2.5.
C7_PassiveIncrement ==
  [][IsTick /\ ~isDying =>
       LET unexpired == IF MapHas(activePowerUps, "MULTIPLIER")
                        THEN ~(now' > activePowerUps["MULTIPLIER"]) ELSE FALSE
           gameSpeed == ((Px(6) + scoreRef \div 1200) * timeScale) \div 100
       IN /\ log'.gameSpeed = gameSpeed
          /\ log'.passive = (gameSpeed * (IF unexpired THEN 25 ELSE 10)) \div 80]_vars

\* C8: the registry holds at most one expiry per power-up type; a pickup of type T
\* sets T's expiry to the frame's clock plus 8000, replacing any expiry held, and
\* emits one POWERUP event; an entry leaves the registry only on a frame whose
\* clock is past its expiry or, for SHIELD, on a frame where it absorbs a hit, so
\* BOOST and MULTIPLIER entries are never removed before their expiry.
C8_RegistryExpiry ==
  /\ [](DOMAIN activePowerUps \subseteq PowerUpTypes)
  /\ [][IsTick =>
         LET picked == Range(log'.picked)
             held == DOMAIN activePowerUps
             absorbed(T) == T = "SHIELD" /\ log'.absorbed >= 1
         IN /\ Tally(log'.events, "POWERUP") = Len(log'.picked)
            /\ emitted'["POWERUP"] = emitted["POWERUP"] + Len(log'.picked)
            /\ DOMAIN activePowerUps' \subseteq held \cup picked
            /\ \A T \in picked :
                 IF MapHas(activePowerUps', T)
                 THEN activePowerUps'[T] = now' + POWERUP_DURATION
                 ELSE absorbed(T)
            /\ \A T \in held \ picked :
                 IF MapHas(activePowerUps', T)
                 THEN activePowerUps'[T] = activePowerUps[T]
                 ELSE now' > activePowerUps[T] \/ absorbed(T)]_vars
  /\ [][~IsTick => activePowerUps' = activePowerUps
                     \/ (IsReset /\ activePowerUps' = EmptyMap)]_vars

\* C8, its case: a MULTIPLIER picked up while an unexpired MULTIPLIER entry is held
C8_Witness ==
  /\ Updated /\ "MULTIPLIER" \in Range(log.picked)
  /\ log.isMultActive /\ "MULTIPLIER" \notin log.purged
  /\ MapHas(activePowerUps, "MULTIPLIER")
  /\ activePowerUps["MULTIPLIER"] = log.t + POWERUP_DURATION

\* C9: on a frame whose clock is before the invincibility expiry no overlap with an
\* obstacle consumes SHIELD or enters the death sequence, while near misses are
\* credited and pickups are taken as the positions alone dictate.
C9_InvincibleFrame ==
  [][IsTick /\ ~isDying /\ (now' < invincibleUntil \/ log'.levelUp) =>
       /\ log'.absorbed = 0 /\ log'.deathCalls = 0 /\ log'.entered = 0
       /\ ~isDying' /\ timers' = timers
       /\ MapHas(activePowerUps', "SHIELD") =
            (\/ "SHIELD" \in Range(log'.picked)
             \/ (MapHas(activePowerUps, "SHIELD") /\ ~(now' > activePowerUps["SHIELD"])))
       /\ nearMissedObstacles' = nearMissedObstacles \cup
            {obstacles'[i].id : i \in {j \in 1..Len(obstacles') :
                Near(obstacles'[j], playerPos'.x, playerPos'.y)}}
       /\ \A i \in 1..Len(powerUps') :
            powerUps'[i].collected = Overlap(playerPos', powerUps'[i])
       /\ \A i \in 1..Len(collectibles') :
            collectibles'[i].collected = Overlap(playerPos', collectibles'[i])
       /\ Len(log'.picked) = Cardinality({i \in 1..Len(powerUps') : powerUps'[i].collected})
       /\ log'.taken = Cardinality({i \in 1..Len(collectibles') : collectibles'[i].collected})
    ]_vars

\* C9, its case: an invincible frame on which an obstacle overlaps a player who
\* holds SHIELD
C9_Witness ==
  /\ Updated /\ ~log.dying /\ log.invincible
  /\ MapHas(activePowerUps, "SHIELD") /\ ~isDying
  /\ \E i \in 1..Len(obstacles) : Hit(obstacles[i], playerPos)

\* C10: while the session is dying every frame runs at time scale 0.15, and at 1.0
\* otherwise; unless a reset comes first the host receives one game-over report,
\* carrying the floor of the score at the moment the death sequence was entered,
\* and is then in GAMEOVER.
C10_DeathReport ==
  /\ [](timeScale = IF isDying THEN SLOW_MOTION ELSE NORMAL_SPEED)
  /\ [](Updated => log.dt = IF log.dying THEN SLOW_MOTION ELSE NORMAL_SPEED)
  /\ [](isDying => scoreRef = scoreAtDeath)
  /\ [](gameState = "GAMEOVER" =>
          isDying /\ reports = <<Floor(scoreAtDeath)>> /\ hostScore = Floor(scoreAtDeath))
  /\ [](Len(reports) <= 1)
  /\ (isDying ~> (gameState = "GAMEOVER" /\ Len(reports) = 1))

\* C10, its case: the timeout of a dying session has fired and the report has arrived
C10_Witness ==
  /\ gameState = "GAMEOVER" /\ log.op = "timeout" /\ log.fired
  /\ reports = <<Floor(scoreAtDeath)>> /\ scoreAtDeath > 0

\* C11: the session state is START, PLAYING or GAMEOVER; it changes only from START
\* to PLAYING, from GAMEOVER to PLAYING, from GAMEOVER to START and from PLAYING to
\* GAMEOVER; the last change is made only by the death sequence's timeout callback,
\* which never runs while the state is START or GAMEOVER.
C11_SessionTransitions ==
  /\ [](gameState \in GameStates)
  /\ [](timers # {} => gameState = "PLAYING" /\ isDying)
  /\ [][gameState' # gameState =>
          <<gameState, gameState'>> \in
            {<<"START", "PLAYING">>, <<"GAMEOVER", "PLAYING">>,
             <<"GAMEOVER", "START">>, <<"PLAYING", "GAMEOVER">>}]_vars
  /\ [][gameState' = "GAMEOVER" /\ gameState # "GAMEOVER" =>
          /\ gameState = "PLAYING" /\ isDying
          /\ log'.op = "timeout" /\ log'.fired
          /\ \E tm \in timers : timers' = timers \ {tm} /\ tm.id = deathTimeoutRef]_vars
  /\ [][log'.op = "timeout" /\ ticks' = ticks /\ timers' # timers => gameState = "PLAYING"]_vars

\* C11, its case: the session went from PLAYING to GAMEOVER by the callback and
\* from GAMEOVER back to START
C11_Witness ==
  gameState = "START" /\ log.op = "editProfile" /\ highScore > 0 /\ timers = {}

\* the state resetGame leaves, lines 98-123 (particles and dash trails are not modelled)
ResetState ==
  /\ scoreRef = 0 /\ lastLevelRef = 1
  /\ obstacles = <<>> /\ collectibles = <<>> /\ powerUps = <<>>
  /\ nearMissedObstacles = {} /\ activePowerUps = EmptyMap
  /\ ~isDying /\ timeScale = NORMAL_SPEED /\ invincibleUntil = 0
  /\ timers = {}
  /\ playerPos = [x |-> Px(PLAYER_X), y |-> Px(GROUND_Y - PLAYER_SIZE)]

C13_ResetThenTick ==
  [][IsTick /\ ResetState =>
       /\ obstacles' = <<>> /\ collectibles' = <<>> /\ powerUps' = <<>>
       /\ scoreRef' = 0
       /\ nearMissedObstacles' = {} /\ activePowerUps' = EmptyMap]_vars

\* C13, amended: one frame after a reset leaves the reset state as it is while the
\* session is not PLAYING; in a PLAYING session it leaves the passive increment 0.75
\* as the score and one obstacle, spawned at x = 950, with at most one pickup
\* spawned beside it, the near-miss set and the registry empty.
C13_ResetThenFirstSpawn ==
  /\ [][log'.op = "idle" /\ ResetState =>
          /\ gameState # "PLAYING" /\ ResetState'
          /\ scoreRef' = 0 /\ obstacles' = <<>> /\ collectibles' = <<>> /\ powerUps' = <<>>]_vars
  /\ [][IsTick /\ ResetState =>
          /\ scoreRef' = 75
          /\ log'.spawned /\ Len(obstacles') = 1 /\ obstacles'[1].x = Px(SPAWN_X)
          /\ Len(collectibles') + Len(powerUps') <= 1
          /\ \A i \in 1..Len(collectibles') : ~collectibles'[i].collected
          /\ \A i \in 1..Len(powerUps') : ~powerUps'[i].collected
          /\ nearMissedObstacles' = {} /\ activePowerUps' = EmptyMap
          /\ ~isDying' /\ lastLevelRef' = 1]_vars

\* C13, its case: the first frame of a session restarted after a game over
C13_Witness ==
  /\ Updated /\ log.spawned /\ highScore > 0 /\ ticks >= 2
  /\ scoreRef = 75 /\ Len(obstacles) = 1 /\ Len(powerUps) = 1

\* C14: a reset made while the death timer is pending cancels it, so that timer
\* brings no game-over report; a report is delivered only in a session that has
\* entered the death sequence since its last reset; a reset made in the middle of a
\* death sequence leaves the same state as any other reset.
C14_ResetCancelsTimer ==
  /\ [](timers # {} => isDying /\ \A tm \in timers : tm.id = deathTimeoutRef)
  /\ [](Len(reports) >= 1 => isDying /\ deathSequences = 1)
  /\ [][Len(reports') > Len(reports) => isDying /\ isDying' /\ deathSequences = 1]_vars
  /\ [][log'.op \in {"setStart", "editProfile", "startGame"} /\ gameState' # gameState =>
          /\ ResetState' /\ playerVel' = [x |-> 0, y |-> 0]
          /\ timers' = {} /\ reports' = <<>> /\ deathSequences' = 0
          /\ lastXDir' = 0 /\ emitted' = NoEvents]_vars

\* C14, its case: a reset made while the death timer was pending
C14_Witness ==
  /\ log.op = "setStart" /\ log.pending
  /\ timers = {} /\ ~isDying /\ reports = <<>> /\ ResetState

\* the obstacle of the list with the given id
ById(list, id) == list[CHOOSE i \in 1..Len(list) : list[i].id = id]
Ids(list) == {list[i].id : i \in 1..Len(list)}

\* C15: an obstacle that appears in the list was spawned by that frame, as the last
\* of the list, with speedMultiplier = 1 + s/1000 for the score s the frame had
\* reached when it spawned (3.0 for s = 2000); an obstacle that stays in the list
\* keeps its speedMultiplier through every step, a hit absorbed by the shield
\* included.
C15_SpeedMultiplierFixed ==
  [][/\ \A id \in Ids(obstacles') \cap Ids(obstacles) :
          ById(obstacles', id).speedMultiplier = ById(obstacles, id).speedMultiplier
     /\ \A i \in 1..Len(obstacles') :
          obstacles'[i].id \notin Ids(obstacles)
            => /\ IsTick /\ log'.spawned /\ i = Len(obstacles')
               /\ obstacles'[i].speedMultiplier * 1000
                    = 100000 + (scoreRef' - log'.collectGain)
                        - ((scoreRef' - log'.collectGain) % 1000)
               /\ (scoreRef' - log'.collectGain) \div Px(1) = 2000
                    => obstacles'[i].speedMultiplier = 300]_vars

\* C15, its case: an obstacle spawned at a score of 2000 with the factor 3.0 has
\* since been moved by a later frame.
C15_Witness ==
  /\ Updated /\ ~log.spawned
  /\ \E i \in 1..Len(obstacles) :
       obstacles[i].speedMultiplier = 300 /\ obstacles[i].x = Px(SPAWN_X) - log.gameSpeed

\* C16: on a frame, of two obstacles of the same type other than missile that the
\* frame moves, the one with the larger speedMultiplier is displaced further to
\* the left.
C16_FasterWhenLater ==
  [][IsTick =>
       \A a, b \in Ids(obstacles) \cap Ids(obstacles') :
         (/\ ById(obstacles, a).type = ById(obstacles, b).type
          /\ ById(obstacles, a).type # "missile"
          /\ ById(obstacles, a).speedMultiplier > ById(obstacles, b).speedMultiplier)
           => ById(obstacles, a).x - ById(obstacles', a).x
                > ById(obstacles, b).x - ById(obstacles', b).x]_vars

\* C17: a jump key pressed, or a jump button found pressed by a frame's gamepad
\* poll, starts a jump (vertical velocity -15, airborne flag set) exactly when the
\* session is PLAYING, not dying and the airborne flag is clear. A key pressed in
\* any other state leaves velocity, position and flag as they were; a button
\* polled in any other state leaves the frame with gravity and landing alone.
\* The frame that starts a jump goes on to apply gravity to the new velocity.
C17_JumpTrigger ==
  [][/\ (log'.op = "keydown" /\ log'.code \in JumpKeys)
          => IF gameState = "PLAYING" /\ ~isDying /\ ~isJumping
             THEN /\ log'.jumps = 1
                  /\ playerVel' = [playerVel EXCEPT !.y = -1500]
                  /\ isJumping' /\ playerPos' = playerPos
             ELSE /\ log'.jumps = 0
                  /\ UNCHANGED <<playerVel, playerPos, isJumping>>
     /\ (IsTick /\ log'.pressed)
          => IF ~isDying /\ ~isJumping
             THEN /\ log'.jumps = 1 /\ ~log'.landed
                  /\ playerVel'.y = -1500 + Scale(GRAVITY, log'.dt)
                  /\ playerPos'.y = playerPos.y + Scale(playerVel'.y, log'.dt)
                  /\ isJumping'
             ELSE /\ log'.jumps = 0
                  /\ IF log'.landed
                     THEN playerVel'.y = 0 /\ ~isJumping'
                     ELSE /\ playerVel'.y = playerVel.y + Scale(GRAVITY, log'.dt)
                          /\ playerPos'.y = playerPos.y + Scale(playerVel'.y, log'.dt)
                          /\ isJumping' = isJumping
     /\ (IsTick /\ ~log'.pressed) => log'.jumps = 0
     /\ log'.op = "idle" => UNCHANGED <<playerVel, playerPos, isJumping>>]_vars

\* C17, its case: a jump started by a key in a PLAYING session, after a key was
\* pressed to no effect on the start screen.
C17_Witness ==
  /\ log.op = "keydown" /\ log.jumps = 1 /\ keyEvents = 2 /\ ticks = 0
  /\ gameState = "PLAYING" /\ highScore = 0 /\ firstFrame
  /\ playerVel.y = -1500 /\ isJumping

\* the frame before this step brought the player down from a jump
Touchdown == log.op = "update" /\ log.wasJumping /\ log.landed

\* C18: jumps are edge-triggered and not buffered. A key starts a jump only with the
\* airborne flag clear and sets it, and only a frame clears the flag, so the keys
\* pressed between two frames start at most one jump. A jump input held since
\* before a landing starts no jump after it: not the gamepad button that the
\* landing frame's poll and the next frame's poll both find pressed, and not the
\* repeated keydown of a key that has not been released.
C18_EdgeTriggered ==
  /\ [][log'.op = "keydown" /\ log'.jumps = 1 => ~isJumping /\ isJumping']_vars
  /\ [][isJumping /\ ~isJumping' => IsTick]_vars
  /\ [][Touchdown /\ IsTick /\ log.pressed /\ log'.pressed => log'.jumps = 0]_vars
  /\ [][Touchdown /\ log'.op = "keydown" /\ log'.code \in keysPressed
          => log'.jumps = 0]_vars

\* the time t lies in the cooldown opened by a rate-limit signal
InCooldown(t, signals) ==
  \E s \in signals : s <= t /\ t < s + CircuitBreakerDuration(revision)
LocalContent == {"fallback", "empty", "comments"}

\* C19: once a generateContent call has failed with a rate-limit error at time t,
\* no generateContent call is issued at any time in [t, t + CIRCUIT_BREAKER_DURATION),
\* also not by a call of the service that was in its throttle sleep or in a retry
\* backoff when the circuit opened, and every call of the service that settles in
\* that window settles with local fallback content.
C19_CooldownSuppressesCalls ==
  /\ [](\A c \in apiCalls : ~InCooldown(c.at, rateLimits))
  /\ [][\A r \in Requests :
          (requests[r].pc # "done" /\ requests'[r].pc = "done" /\ InCooldown(now', rateLimits'))
            => requests'[r].result.kind \in LocalContent]_vars

\* C20: whatever generateContent does (a text that parses, a text that does not, no
\* text, a rate-limit error, any other error on every attempt) and when the circuit
\* is open already, a call of fetchNewEnvironment or fetchChatComments settles with
\* a value and never rejects; fetchNewEnvironment settles with the parsed response
\* only after a text that parses, and otherwise with one of FALLBACK_ENVIRONMENTS.
C20_AlwaysResolves ==
  \A r \in Requests :
    requests[r].pc = "done" =>
      /\ requests[r].result.kind \in {"remote", "fallback", "empty", "comments"}
      /\ requests[r].outcome \in
           {"json", "garbled", "empty", "rateLimit", "exhausted", "circuitOpen"}
      /\ requests[r].fn = "fetchNewEnvironment" =>
           IF requests[r].outcome = "json" THEN requests[r].result = Remote
           ELSE /\ requests[r].result.kind = "fallback"
                /\ requests[r].result.name \in FALLBACK_ENVIRONMENTS
      /\ requests[r].fn = "fetchChatComments" =>
           (requests[r].result = Remote <=> requests[r].outcome = "json")

\* C20, its case: a fetchNewEnvironment call has settled with a fallback after its
\* last retry failed, and another call has settled with local content after a
\* response that does not parse.
C20_Witness ==
  /\ requests[1].pc = "done" /\ requests[1].fn = "fetchNewEnvironment"
  /\ requests[1].outcome = "exhausted" /\ requests[1].attempt = MaxRetries(revision)
  /\ requests[1].result.kind = "fallback"
  /\ requests[2].pc = "done" /\ requests[2].outcome = "garbled"
  /\ requests[2].result.kind \in LocalContent

\* C21: the host has at most one fetchNewEnvironment call in flight; a call starts
\* no sooner than 30 s after the call before it settled, session restarts in
\* between included; and a call starts only in PLAYING, for a milestone
\* floor(score / 5000) above the last milestone a call was started for (0 since
\* the session's start).
C21_HostRequestPacing ==
  /\ [](Cardinality({i \in 1..Len(envRequests) : envRequests[i].settled = -1}) <= 1)
  /\ [](\A i \in 2..Len(envRequests) :
          /\ envRequests[i - 1].settled # -1
          /\ envRequests[i].started >= envRequests[i - 1].settled + 30000)
  /\ [][Len(envRequests') > Len(envRequests)
          => /\ gameState' = "PLAYING"
             /\ Len(envRequests') = Len(envRequests) + 1
             /\ envRequests'[Len(envRequests')].milestone = hostScore' \div 5000
             /\ hostScore' \div 5000 > lastShiftRef
             /\ lastShiftRef' = hostScore' \div 5000]_vars

\* C21, its case: a second call started exactly 30 s after the first settled, in a
\* session begun after the first call's session ended.
C21_Witness ==
  /\ Len(envRequests) = 2 /\ gameState = "PLAYING" /\ highScore > 0
  /\ envRequests[2].started = envRequests[1].settled + 30000
  /\ envRequests[2].milestone <= envRequests[1].milestone

\* C21 as stated, with the last milestone taken over all sessions: at most one call
\* in flight, 30 s between a call's settling and the next call's start, and a call
\* starts only in PLAYING for a milestone above that of the call started last.
C21_HostRequestPacingAnySession ==
  /\ [](Cardinality({i \in 1..Len(envRequests) : envRequests[i].settled = -1}) <= 1)
  /\ [](\A i \in 2..Len(envRequests) :
          /\ envRequests[i - 1].settled # -1
          /\ envRequests[i].started >= envRequests[i - 1].settled + 30000)
  /\ [][Len(envRequests') > Len(envRequests)
          => /\ gameState' = "PLAYING"
             /\ Len(envRequests) > 0
                  => hostScore' \div 5000 > envRequests[Len(envRequests)].milestone]_vars

\* C22: the distance the world scrolls and the score accrued over an interval of
\* wall-clock time do not depend on the number of frames run in it: what a frame
\* scrolls and accrues is in proportion to the time the frame covers, so a frame
\* of one length and a frame of another length from the same state scroll and
\* accrue the same amount per millisecond.
C22_FrameRateIndependent ==
  [][IsTick /\ ~isDying =>
       \A el \in TickMs :
         LET other == UpdateHead(Refs, now + el,
                        [pads |-> NoPad, sinv |-> 0, cosv |-> 0, wait |-> 0, draw |-> NoDraw])
         IN /\ other.gs * (now' - now) = log'.gameSpeed * el
            /\ (other.score - scoreRef) * (now' - now) = log'.passive * el]_vars

\* C23: on the frame after one in which SHIELD absorbed a hit, a non-laser obstacle
\* whose hit was absorbed stands at x = -1000 before the frame, registers no hit in
\* it and is gone from the list after it; a laser whose hit was absorbed and that
\* has stayed active without going inactive in between registers no hit in it.
C23_AbsorbedObstacleHarmless ==
  [][IsTick /\ Updated =>
       \A id \in log.absorbedIds \cap Ids(obstacles) :
         LET o == ById(obstacles, id) IN
         IF o.type # "laser"
         THEN /\ o.x = Px(OFFSTAGE_X)
              /\ id \notin log'.hitIds
              /\ id \notin Ids(obstacles')
         ELSE (/\ id \in Ids(obstacles')
               /\ o.state.active
               /\ ById(obstacles', id).state.active
               /\ ById(obstacles', id).state.timer > o.state.timer)
                => id \notin log'.hitIds]_vars

\* C24: after a frame that was not dying, (a) if a SHIELD power-up was picked up in
\* the frame and exactly one obstacle hit the player in it, the hit was absorbed:
\* the death sequence was not called, the player is not dying and SHIELD has left
\* the registry; (b) if the frame raised the level, the frame counted as invincible
\* with the expiry 2000 ms after its clock, no hit was registered and the player
\* is not dying, whatever overlaps the player.
C24_EarlierChecksSeenByHazards ==
  (Updated /\ ~log.dying) =>
    /\ ("SHIELD" \in Range(log.picked) /\ log.hits = 1)
         => /\ log.absorbed = 1 /\ log.deathCalls = 0 /\ ~isDying
            /\ ~MapHas(activePowerUps, "SHIELD")
            /\ invincibleUntil = log.t + SHIELD_RECOVERY
    /\ log.levelUp
         => /\ log.invincible /\ log.hits = 0 /\ ~isDying
            /\ invincibleUntil = log.t + INVINCIBILITY_DURATION

\* C24: a frame in which the player picked up a SHIELD power-up and was hit by
\* one obstacle, and the hit was absorbed
C24_Witness ==
  /\ Updated /\ ~log.dying /\ "SHIELD" \in Range(log.picked) /\ log.hits = 1
  /\ ~log.levelUp /\ log.absorbed = 1

\* C24, second case: a frame that raised the level while an obstacle overlapped
\* the player
C24_LevelUpOverlap ==
  /\ Updated /\ log.levelUp
  /\ \E i \in 1..Len(obstacles) : Hit(obstacles[i], playerPos)

\* C25: no step other than a change of screen, which resets the game, lowers the
\* invincibility expiry; a frame that raises the level leaves it at the frame's
\* clock + 2000 and a frame in which SHIELD absorbs a hit leaves it at the frame's
\* clock + 1000, above what it was; and a frame calls the death sequence only if
\* its clock has reached the expiry held before the frame, hence never before
\* t + 2000 after a level-up at clock t.
C25_ExpiryMonotone ==
  [][/\ invincibleUntil' < invincibleUntil
          => gameState' # gameState /\ gameState' # "GAMEOVER" /\ invincibleUntil' = 0
     /\ IsTick /\ log'.levelUp
          => invincibleUntil' = now' + INVINCIBILITY_DURATION
     /\ IsTick /\ log'.absorbed > 0
          => /\ invincibleUntil' = now' + SHIELD_RECOVERY
             /\ invincibleUntil' > invincibleUntil
     /\ IsTick /\ log'.deathCalls > 0
          => /\ now' >= invincibleUntil
             /\ ~log'.levelUp
             /\ (Updated /\ log.levelUp => now' >= log.t + INVINCIBILITY_DURATION)]_vars

\* C25: the frame after a level-up at clock t comes at t + 2000, as the window
\* ends, and calls the death sequence
C25_Witness ==
  /\ Updated /\ log.deathCalls > 0 /\ ticks = 2
  /\ log.t = invincibleUntil /\ log.t > INVINCIBILITY_DURATION

StompIds(list) == {list[i].id : i \in {j \in 1..Len(list) : list[j].type = "stomp"}}
\* the step is a frame that has moved the obstacles
IsFrame == IsTick \/ log'.op = "stomp"
StompStages == <<"waiting", "dropping", "rising">>
NextStage(stage) == CASE stage = "waiting" -> "dropping"
                      [] stage = "dropping" -> "rising"
                      [] OTHER -> "waiting"

\* C26, safety: a stomp's stage changes only from waiting to dropping, from
\* dropping to rising and from rising to waiting; the impact effect is played for
\* a stomp in exactly the frames that take it from dropping to rising; a stomp
\* enters rising at ground level with its timer at 500 and stays at that height
\* while the timer, which falls by 16 * timeScale per frame, is above 0.
C26_StompStages ==
  [][\A id \in StompIds(obstacles) \cap StompIds(obstacles') :
       LET a == ById(obstacles, id)
           b == ById(obstacles', id)
       IN /\ a.state.stage # b.state.stage => b.state.stage = NextStage(a.state.stage)
          /\ IsFrame =>
               /\ id \in log'.impacts
                    <=> (a.state.stage = "dropping" /\ b.state.stage = "rising")
               /\ (a.state.stage = "dropping" /\ b.state.stage = "rising")
                    => b.state.timer = Px(500) /\ b.y = Px(GROUND_Y) - b.height
               /\ (a.state.stage = "rising" /\ b.state.stage = "rising")
                    => /\ b.state.timer = a.state.timer - Scale(Px(FRAME_MS), timeScale)
                       /\ b.state.timer > 0 => b.y = a.y
               /\ (a.state.stage = "rising" /\ b.y < a.y)
                    => a.state.timer - Scale(Px(FRAME_MS), timeScale) <= 0]_vars

\* C26: the safety part, and while frames keep coming a stomp in any stage gets to
\* the next stage of the cycle or leaves the list.
C26_StompCycle ==
  /\ C26_StompStages
  /\ \A k \in 1..3 :
       (obstacles # <<>> /\ obstacles[1].state.stage = StompStages[k])
         ~> (obstacles = <<>> \/ obstacles[1].state.stage = NextStage(StompStages[k]))

\* C26: a frame has brought a stomp from rising back to waiting, at the top, with
\* the timer at its new wait and the impact flag cleared
C26_Witness ==
  /\ log.op = "stomp" /\ obstacles # <<>>
  /\ obstacles[1].type = "stomp" /\ obstacles[1].state.stage = "waiting"
  /\ obstacles[1].state.timer \in StompWaits
  /\ obstacles[1].y = -obstacles[1].height
  /\ ~obstacles[1].state.impactSoundPlayed

LaserIds(list) == {list[i].id : i \in {j \in 1..Len(list) : list[j].type = "laser"}}

\* C27: an obstacle that a frame adds to the list as a laser is inactive with
\* timer 0; a frame takes a laser's timer t to t + 16 * timeScale and, exactly when
\* that exceeds 2000, flips its active flag and returns the timer to 0; no other
\* step changes a laser's timer or flag; and a laser that is inactive when the
\* frame ends has registered no hit in it, has not used up SHIELD and has not
\* called the death sequence, wherever the player is.
C27_LaserCycle ==
  [][/\ \A id \in LaserIds(obstacles') \ Ids(obstacles) :
          (IsTick /\ gameState' = gameState)
            => /\ ~ById(obstacles', id).state.active
               /\ ById(obstacles', id).state.timer = 0
     /\ \A id \in LaserIds(obstacles) \cap LaserIds(obstacles') :
          LET a == ById(obstacles, id).state
              b == ById(obstacles', id).state
              t1 == a.timer + Scale(Px(FRAME_MS), timeScale)
          IN IF IsTick
             THEN /\ b.timer = IF t1 > Px(LASER_PERIOD) THEN 0 ELSE t1
                  /\ (b.active # a.active) <=> t1 > Px(LASER_PERIOD)
                  /\ ~b.active => /\ id \notin log'.hitIds
                                  /\ id \notin log'.absorbedIds
                                  /\ (log'.hits = 0 => log'.deathCalls = 0 /\ log'.absorbed = 0)
             ELSE b = a]_vars

\* C27: a frame outside the invincibility window ends with a laser that has just
\* gone inactive standing across the player, and no hit was registered
C27_Witness ==
  /\ Updated /\ ~log.dying /\ ~log.invincible /\ log.hits = 0 /\ ~isDying
  /\ \E i \in 1..Len(obstacles) :
       /\ obstacles[i].type = "laser" /\ ~obstacles[i].state.active
       /\ obstacles[i].state.timer = 0
       /\ playerPos.x + Px(PLAYER_SIZE) > obstacles[i].x + Px(5)
       /\ playerPos.x < obstacles[i].x + obstacles[i].width - Px(5)

\* the distance from the spawn position to the x the last obstacle must be below
RequiredGap(score) == Px(SPAWN_X) - (Px(CANVAS_WIDTH) - SpawnGap(score))
GapScores == {Px(500 * k) : k \in 0..12} \cup {Px(4500) - 1}

\* C28: a frame adds at most one obstacle to the list, and adds one exactly when it
\* was not dying at its start and, of the obstacles it kept, either there is none
\* or the last has x below 800 - (250 - min(score/30, 150)); the required gap
\* behind the last obstacle, measured from the spawn position, is 400 at score 0,
\* does not grow with the score, is 250 from score 4500 on and above 250 before.
C28_SpawnRule ==
  [][IsTick =>
       LET new == Ids(obstacles') \ Ids(obstacles)
           kept == {i \in 1..Len(obstacles') : obstacles'[i].id \in Ids(obstacles)}
           last == CHOOSE i \in kept : \A j \in kept : j <= i
           score == scoreRef' - log'.collectGain
       IN /\ Cardinality(new) <= 1
          /\ Cardinality(new) = 1 <=> log'.spawned
          /\ log'.spawned
               <=> /\ ~isDying
                   /\ \/ kept = {}
                      \/ obstacles'[last].x
                           < Px(800) - (Px(250) - Min(score \div 30, Px(150)))
          /\ log'.spawned => obstacles'[Len(obstacles')].id \in new
          /\ \A s \in GapScores \cup {score} :
               /\ RequiredGap(0) = Px(400)
               /\ RequiredGap(s) >= Px(250)
               /\ RequiredGap(s) = Px(250) <=> s >= Px(4500)
               /\ RequiredGap(s + Px(500)) <= RequiredGap(s)]_vars

\* C28: a frame at a score above 4500 has kept an obstacle that stands between 700
\* and the 703.3 that the rule without its floor would allow, and has spawned
\* nothing
C28_Witness ==
  /\ Updated /\ ~log.dying /\ ~log.spawned /\ scoreRef > Px(4500)
  /\ Len(obstacles) = 1
  /\ obstacles[1].x >= Px(700) /\ obstacles[1].x < Px(CANVAS_WIDTH) - (Px(250) - scoreRef \div 30)

C30_NearMissWithHit ==
  [][/\ (IsTick /\ ~isDying) =>
          /\ \A i \in 1..Len(log'.moved) :
               LET m == log'.moved[i]
                   dx == (playerPos'.x + Px(15)) - (m.x + m.width \div 2)
                   dy == (playerPos'.y + Px(15)) - (m.y + m.height \div 2)
               IN (/\ m.id \notin nearMissedObstacles
                   /\ Abs(dx) < Px(55) /\ Abs(dy) < Px(55)
                   /\ dx * dx + dy * dy < Px(55) * Px(55))
                    <=> m.id \in Range(log'.credited)
          /\ nearMissedObstacles' = nearMissedObstacles \cup Range(log'.credited)
          /\ scoreRef' = scoreRef + log'.passive + Px(500) * Len(log'.credited)
                           + log'.collectGain
          /\ log'.entered > 0 => scoreAtDeath' = scoreRef'
     /\ (gameState # "GAMEOVER" /\ gameState' = "GAMEOVER")
          => reports' = <<Floor(scoreAtDeath)>> /\ scoreRef' = scoreAtDeath]_vars

\* C30: a frame has credited an obstacle as a near miss, the same obstacle has hit
\* the player in it, and the death sequence has started with the 500 in the score
C30_Witness ==
  /\ Updated /\ ~log.dying /\ log.entered > 0 /\ isDying
  /\ Range(log.credited) \cap log.hitIds # {}
  /\ scoreAtDeath = scoreRef
  /\ log.collectGain = 0
  /\ scoreRef - log.passive >= Px(500)

\* the registry entries that the purge of a frame ending at clock t keeps
Survivors(ap, t) == {k \in DOMAIN ap : ~(t > ap[k])}
\* the HUD list after a frame has one entry for each survivor of the frame's purge,
\* with timeLeft = expiry - clock in 0..8000 and percent = timeLeft / 8000 * 100
\* in 0..100
HudEntries ==
  /\ {e.type : e \in activeHudPowerUps'} = Survivors(activePowerUps, now')
  /\ Cardinality(activeHudPowerUps') = Cardinality(Survivors(activePowerUps, now'))
  /\ \A e \in activeHudPowerUps' :
       /\ e.timeLeft = activePowerUps[e.type] - now'
       /\ e.timeLeft >= 0 /\ e.timeLeft <= 8000
       /\ e.percent = (e.timeLeft * 100) \div 8000
       /\ e.percent >= 0 /\ e.percent <= 100
C31_HudEntriesOnly == [][IsTick => HudEntries]_vars

\* C31: after every frame the HUD list has exactly one entry per registry entry
\* that survived the frame's purge, each with 0 <= timeLeft <= 8000 and
\* 0 <= percent <= 100, percent = timeLeft / 8000 * 100, and hasMultiplier is true
\* exactly when the HUD list has a MULTIPLIER entry.
C31_HudProjection ==
  [][IsTick =>
       /\ HudEntries
       /\ hasMultiplier' <=> (\E e \in activeHudPowerUps' : e.type = "MULTIPLIER")]_vars

\* C32: a frame that starts dying leaves the score, the recorded level, the
\* near-miss set, the invincibility expiry and the player's x as they were, takes
\* out of the registry only entries whose expiry the frame's clock has passed and
\* adds or changes none, adds no obstacle, sets no collected flag, starts no jump
\* and emits no social event; a key pressed while dying starts no jump either.
C32_DyingFrames ==
  [][/\ (IsTick /\ isDying) =>
          /\ scoreRef' = scoreRef /\ lastLevelRef' = lastLevelRef
          /\ nearMissedObstacles' = nearMissedObstacles
          /\ invincibleUntil' = invincibleUntil
          /\ playerPos'.x = playerPos.x
          /\ DOMAIN activePowerUps' \subseteq DOMAIN activePowerUps
          /\ \A k \in DOMAIN activePowerUps :
               IF now' > activePowerUps[k]
               THEN k \notin DOMAIN activePowerUps'
               ELSE k \in DOMAIN activePowerUps' /\ activePowerUps'[k] = activePowerUps[k]
          /\ Ids(obstacles') \subseteq Ids(obstacles) /\ ~log'.spawned
          /\ Ids(powerUps') \subseteq Ids(powerUps)
          /\ Ids(collectibles') \subseteq Ids(collectibles)
          /\ \A id \in Ids(powerUps') : ById(powerUps', id).collected = ById(powerUps, id).collected
          /\ \A id \in Ids(collectibles') :
               ById(collectibles', id).collected = ById(collectibles, id).collected
          /\ log'.picked = <<>> /\ log'.taken = 0 /\ log'.credited = <<>>
          /\ log'.jumps = 0 /\ (isJumping' => isJumping)
          /\ playerVel'.y # JUMP_FORCE \/ playerVel.y = JUMP_FORCE
          /\ log'.events = <<>> /\ emitted' = emitted
          /\ isDying' /\ log'.entered = 0
     /\ (isDying /\ log'.op = "keydown")
          => log'.jumps = 0 /\ UNCHANGED <<playerVel, isJumping>>]_vars

\* C32: a frame that started dying has ended with the player across a power-up
\* and a collectible that are not collected, with a missile inside the near-miss
\* radius that is not credited, and with an expired entry gone from the registry
C32_Witness ==
  /\ Updated /\ log.dying /\ log.purged # {}
  /\ \E i \in 1..Len(powerUps) : ~powerUps[i].collected /\ Overlap(playerPos, powerUps[i])
  /\ \E i \in 1..Len(collectibles) :
       ~collectibles[i].collected /\ Overlap(playerPos, collectibles[i])
  /\ \E i \in 1..Len(obstacles) :
       /\ obstacles[i].id \notin nearMissedObstacles
       /\ Near(obstacles[i], playerPos.x, playerPos.y)

NewlyCollected(before, after) ==
  {id \in Ids(after) \cap Ids(before) : ById(after, id).collected /\ ~ById(before, id).collected}

\* C33: a power-up or collectible whose collected flag is set before a frame is
\* not in its list after the frame; the power-ups a frame picks up, the POWERUP
\* events it emits and the registry entries it writes are those of the power-ups
\* whose flag it sets, one each; the collectibles it takes, the COLLECT events it
\* emits and the score it adds for them are those of the collectibles whose flag
\* it sets, one each.
C33_PickupOnce ==
  [][IsTick =>
       LET newP == NewlyCollected(powerUps, powerUps')
           newC == NewlyCollected(collectibles, collectibles')
       IN /\ \A id \in Ids(powerUps) : ById(powerUps, id).collected => id \notin Ids(powerUps')
          /\ \A id \in Ids(collectibles) :
               ById(collectibles, id).collected => id \notin Ids(collectibles')
          /\ Len(log'.picked) = Cardinality(newP)
          /\ Range(log'.picked) = {ById(powerUps, id).type : id \in newP}
          /\ Tally(log'.events, "POWERUP") = Cardinality(newP)
          /\ \A k \in DOMAIN activePowerUps' :
               IF k \in Range(log'.picked)
               THEN activePowerUps'[k] = now' + POWERUP_DURATION
               ELSE k \in DOMAIN activePowerUps /\ activePowerUps'[k] = activePowerUps[k]
          /\ log'.taken = Cardinality(newC)
          /\ Tally(log'.events, "COLLECT") = Cardinality(newC)
          /\ log'.collectGain = Cardinality(newC) * (IF hasMultiplier' THEN Px(300) ELSE Px(100))]_vars

\* C33: the second frame of a session that is not dying ends with the power-up
\* list empty and nothing picked up, the registry holding the SHIELD expiry that
\* the first frame wrote when it picked the power-up up
C33_Witness ==
  /\ Updated /\ ~log.dying /\ ticks = 2
  /\ powerUps = <<>> /\ log.picked = <<>>
  /\ MapHas(activePowerUps, "SHIELD")
  /\ activePowerUps["SHIELD"] > POWERUP_DURATION
  /\ activePowerUps["SHIELD"] < log.t + POWERUP_DURATION

\* the player stands on the ground line with no vertical velocity in a session
\* that is being played and is not dying
Standing ==
  /\ gameState = "PLAYING" /\ ~isDying
  /\ playerPos.y = Px(GROUND_Y - PLAYER_SIZE) /\ playerVel.y = 0

\* C34: whenever the player stands on the ground line with zero vertical velocity
\* in state PLAYING and not dying, isJumping is false, and a jump key pressed then
\* starts a jump.
C34_GroundedCanJump ==
  /\ [](Standing => ~isJumping)
  /\ [][(Standing /\ log'.op = "keydown" /\ log'.code \in JumpKeys)
          => log'.jumps = 1 /\ playerVel'.y = JUMP_FORCE]_vars

\* C35: after every frame the player's x is within 0..770 and the player's y is at
\* most 290; a frame lands exactly when the y that gravity gives, from the velocity
\* the frame starts with or from the jump it starts, is above 290, and a landing
\* frame ends with y = 290, vertical velocity 0 and isJumping false, while any
\* other frame ends with that y and velocity.
C35_PlayerBounds ==
  [][IsTick =>
       LET vy0 == IF log'.jumps > 0 THEN JUMP_FORCE ELSE playerVel.y
           vy1 == vy0 + Scale(GRAVITY, timeScale)
           y1 == playerPos.y + Scale(vy1, timeScale)
       IN /\ playerPos'.x >= 0 /\ playerPos'.x <= Px(770)
          /\ playerPos'.y <= Px(290)
          /\ log'.landed <=> y1 > Px(290)
          /\ IF y1 > Px(290)
             THEN playerPos'.y = Px(290) /\ playerVel'.y = 0 /\ ~isJumping'
             ELSE playerPos'.y = y1 /\ playerVel'.y = vy1]_vars

\* C35: a frame has stopped the player at the right edge of the play field, on the
\* ground, with a key still held to the right
C35_Witness ==
  /\ Updated /\ ~log.dying /\ "ArrowRight" \in keysPressed /\ lastXDir = 1
  /\ playerPos.x = Px(770) /\ playerPos.y = Px(290) /\ log.landed

\* C36: any two generateContent calls made through withRetry, by the same call of
\* the service (a first attempt and its retries) or by two calls of the service
\* that are in withRetry at the same time, are at least MIN_REQUEST_INTERVAL
\* (10 s) apart.
C36_CallsSpaced ==
  \A c, d \in apiCalls : c # d => Abs(c.at - d.at) >= MIN_REQUEST_INTERVAL

\* the generateContent calls that call r of the service has made
CallsBy(r) == {c \in apiCalls : c.by = r}

\* C37: a call of the service that has entered withRetry ends; it invokes
\* generateContent at most maxRetries + 1 times; retry number k is made
\* baseDelay * 2^(k-1) after attempt k-1 failed; an attempt that fails with a rate
\* limit opens the circuit and ends the call, which makes no attempt after it; a
\* call that finds the circuit open at entry makes no attempt; a call that has
\* ended makes no further attempt.
C37_WithRetryTerminates ==
  /\ \A r \in Requests : (requests[r].pc # "idle") ~> (requests[r].pc = "done")
  /\ [](\A r \in Requests :
          /\ Cardinality(CallsBy(r)) <= MaxRetries(revision) + 1
          /\ \A c \in CallsBy(r) : c.attempt \in 0..MaxRetries(revision)
          /\ requests[r].outcome = "rateLimit" => requests[r].pc = "done"
          /\ requests[r].outcome = "circuitOpen" => CallsBy(r) = {})
  /\ [][\A r \in Requests :
          /\ requests[r].pc = "calling" /\ requests'[r].pc = "backoff" =>
               /\ requests'[r].attempt = requests[r].attempt + 1
               /\ requests'[r].wake = now' + BASE_DELAY * (2 ^ (requests'[r].attempt - 1))
               /\ CallsBy(r)' = CallsBy(r)
          /\ requests[r].pc = "backoff" =>
               /\ CallsBy(r)' \in {CallsBy(r),
                     CallsBy(r) \cup {[at |-> requests[r].wake, by |-> r,
                                       attempt |-> requests[r].attempt]}}
               /\ CallsBy(r)' # CallsBy(r) => now' = requests[r].wake
          /\ requests[r].pc = "calling" /\ requests'[r].outcome = "rateLimit" =>
               circuitOpenUntil' = now' + CircuitBreakerDuration(revision)
          /\ requests[r].pc = "done" =>
               requests'[r] = requests[r] /\ CallsBy(r)' = CallsBy(r)]_vars

\* C37, its case: in the first revision a call has ended after three failed
\* attempts, the second 5.2 s and the third 10.2 s after the one before it, and the
\* other call has ended on a rate limit at its only attempt.
C37_Witness ==
  /\ revision = 1
  /\ requests[1].pc = "done" /\ requests[1].outcome = "exhausted"
  /\ {c.at : c \in CallsBy(1)} = {Epoch, Epoch + 5200, Epoch + 15400}
  /\ requests[2].pc = "done" /\ requests[2].outcome = "rateLimit"
  /\ Cardinality(CallsBy(2)) = 1

\* the fetchNewEnvironment calls started since the latest startGame that have settled
SettledThisSession ==
  {i \in 1..Len(envRequests) : i > sessionRequests /\ envRequests[i].settled # -1}

\* C38: from startGame until a fetchNewEnvironment call started in the session that
\* startGame began has settled, the environment is the default environment and the
\* biome history is the single default name, also when a call started in an earlier
\* session settles in between.
C38_SessionEnvironment ==
  SettledThisSession = {} =>
     environment = DEFAULT_ENVIRONMENT /\ biomeHistory = <<DEFAULT_ENVIRONMENT>>

====
